---- MODULE Spec2Model ----
(***************************************************************************)
(* Position ledger (PositionManager), its SQLite store (TradingDatabase),  *)
(* the position endpoints of RRRv1/backend and the reconciliation pass of  *)
(* the ledger against exchange data (reconcile_with_exchange).             *)
(* ExchangeReconciliationManager (exchange_reconciler.py): the passes of   *)
(* reconcile_all, run by the background loop and by the endpoint           *)
(* /api/reconciliation/sync, as coroutines that can be suspended at each   *)
(* await of an exchange API call.                                          *)
(* TradingDatabase._transaction statement by statement, for threads that   *)
(* share the one connection of a TradingDatabase.                          *)
(* The allocation arithmetic of UnifiedExchangeClient                      *)
(* (exchange_integration.py) and of validate_allocation: shares and drifts *)
(* are exact fractions, targets and the tolerance are in percent.          *)
(* The drift history with its reader get_drift_history, the execution      *)
(* facade (place_order, close_position, reduce_position) over the two API  *)
(* clients, the retention pruning clear_closed_positions, the snapshot of  *)
(* reconcile_all reconciled against the ledger, and the background loop    *)
(* under the fairness an event loop gives.                                 *)
(*                                                                         *)
(* Quantities (prices, sizes, amounts) are integers: one unit stands for   *)
(* one step of the float the code holds (half a reconciliation tolerance). *)
(* A Python None / SQL NULL is the string "NULL"; a timestamp that has     *)
(* been set is the string "ts", and last_reconciled_at, which a pass sets  *)
(* again and again, is the string of the clock reading.                    *)
(* Columns and fields the modelled behaviour never reads (leverage,        *)
(* liquidation_price, opened_at, updated_at, stop_loss,                    *)
(* take_profit_targets, exchange_position_id) are left out.                *)
(***************************************************************************)
EXTENDS Integers, Sequences, FiniteSets, TLC

\* ------------------------------------------------------------------ bounds
MaxCalls == 3

Assets == {"BTC", "ETH"}
Venues == {"hyperliquid", "coinbase"}
\* Inputs of the endpoints: the entry price of an open, the prices of later
\* operations (at and below the entry), a short and a long size, a partial and
\* an oversized reduction amount (two partial reductions of the long size add
\* up to it).
EntryPrices == {2}
Prices == {1, 2}
Sizes == {-2, 2}
Amounts == {1, 3}

NULL == "NULL"
TS == "ts"
None == [none |-> TRUE]

\* ------------------------------------------------------------------- enums
PositionStatus == {"OPENING", "OPEN", "CLOSING", "CLOSED", "LIQUIDATED", "REDUCED"}

StatusValue(s) ==
  CASE s = "OPENING" -> "opening"
    [] s = "OPEN" -> "open"
    [] s = "CLOSING" -> "closing"
    [] s = "CLOSED" -> "closed"
    [] s = "LIQUIDATED" -> "liquidated"
    [] s = "REDUCED" -> "reduced"

StatusFromValue(v) == CHOOSE s \in PositionStatus : StatusValue(s) = v

ReconciliationStatus == {"SYNCED", "DRIFT_DETECTED", "SYNC_FAILED", "PENDING_SYNC"}

\* ---------------------------------------------------------------- Position
Position(asset, entry_price, current_price, size, venue, status) ==
  [asset |-> asset, entry_price |-> entry_price, current_price |-> current_price,
   size |-> size, venue |-> venue, status |-> status,
   closed_at |-> NULL, last_reconciled_at |-> NULL,
   reconciliation_status |-> "PENDING_SYNC"]

\* Position.from_dict over dict(row): a field the row has no column for keeps
\* the dataclass default; the status string goes back through the enum.
from_dict(row) ==
  LET has(c) == c \in DOMAIN row
  IN [asset |-> row["asset"],
      entry_price |-> row["entry_price"],
      current_price |-> row["current_price"],
      size |-> row["size"],
      venue |-> row["venue"],
      status |-> IF has("status") THEN StatusFromValue(row["status"]) ELSE "OPEN",
      closed_at |-> IF has("closed_at") THEN row["closed_at"] ELSE NULL,
      last_reconciled_at |-> row["last_reconciled_at"],
      reconciliation_status |-> "PENDING_SYNC"]

\* --------------------------------------------------- the dict self.positions
\* The dict is held as the set of its values; the key of a value is its asset.
DictHas(d, k) == \E p \in d : p.asset = k
DictGet(d, k) == CHOOSE p \in d : p.asset = k
\* A map keyed by asset and venue instead of asset alone.
DictSet_KeyedByVenue(d, k, v) ==
  {p \in d : ~(p.asset = k /\ p.venue = v.venue)} \cup {v}

DictSet(d, k, v) == {p \in d : p.asset # k} \cup {v}
\* dict.get over a map that answers every key: the stored value, or a
\* position made up for a key it does not hold.
get_Default(d, k) ==
  IF DictHas(d, k) THEN DictGet(d, k)
  ELSE [asset |-> k, entry_price |-> 2, current_price |-> 2, size |-> 2,
        venue |-> "hyperliquid", status |-> "OPEN", closed_at |-> NULL,
        last_reconciled_at |-> NULL, reconciliation_status |-> "PENDING_SYNC"]

\* self.positions.get(asset): the value, or None.
get(d, k) == IF DictHas(d, k) THEN DictGet(d, k) ELSE None
DictDel(d, k) == {p \in d : p.asset # k}
DictKeys(d) == {p.asset : p \in d}

\* ------------------------------------------------------------------ schema
\* CREATE TABLE IF NOT EXISTS positions: the table _init_db creates.
InitDbColumns ==
  {"asset", "entry_price", "current_price", "size", "venue", "last_reconciled_at"}

\* The database file outlives the process and CREATE TABLE IF NOT EXISTS keeps
\* a table it finds: a file whose positions table also carries the two columns
\* the manager's statements name.
ExtendedColumns == InitDbColumns \cup {"status", "closed_at"}

Schemas == {InitDbColumns, ExtendedColumns}

InsertColumns ==
  {"asset", "entry_price", "current_price", "size", "venue", "status",
   "last_reconciled_at"}
CloseUpdateColumns == {"status", "current_price", "closed_at"}
ReduceUpdateColumns == {"size", "current_price", "status"}
PriceUpdateColumns == {"current_price"}
LoadColumns == {"status"}

\* Points of a write transaction at which the store can fail.
Faults == {"none", "positions_stmt", "history_stmt"}
BlockFaults == {"none", "history_stmt"}

VARIABLES
  positions,     \* PositionManager.positions, the active map
  db_positions,  \* rows of table positions
  db_history,    \* rows of table position_history, in id order
  columns,       \* columns of table positions in the database file
  faulty,        \* whether the store can fail (I/O error, lock timeout)
  calls,         \* calls made so far
  response,      \* the last operation: its arguments, what it gave its
                 \* caller, and the store failure it met
  reconciler,    \* the ExchangeReconciliationManager: ready of its two
                 \* reconcilers, _last_reconciliation, _drift_history
  passes,        \* the coroutines running reconcile_all, one per caller
  connection,    \* TradingDatabase._main_connection: whether a transaction
                 \* is open on it, and the tables as they were at its BEGIN
  threads        \* the threads inside add_position, one record per thread

vars == <<positions, db_positions, db_history, columns, faulty, calls, response,
          reconciler, passes, connection, threads>>

\* ------------------------------------------------------------- statements
\* A statement that names a column the table lacks raises OperationalError.
StmtValid(cols, named) == named \subseteq cols

\* The table row of a position under INSERT OR REPLACE: the columns the
\* statement names get the position's values, the others NULL.
RowOf(cols, p) ==
  [c \in cols |->
     CASE c = "asset" -> p.asset
       [] c = "entry_price" -> p.entry_price
       [] c = "current_price" -> p.current_price
       [] c = "size" -> p.size
       [] c = "venue" -> p.venue
       [] c = "status" -> StatusValue(p.status)
       [] c = "last_reconciled_at" -> p.last_reconciled_at
       [] OTHER -> NULL]

\* INSERT OR REPLACE INTO positions: asset is the PRIMARY KEY.
InsertOrReplace(rows, row) == {r \in rows : r["asset"] # row["asset"]} \cup {row}

\* UPDATE positions SET ... WHERE asset = ?
RECURSIVE SetColumns(_, _, _)
SetColumns(row, names, values) ==
  IF names = {} THEN row
  ELSE LET c == CHOOSE x \in names : TRUE
       IN SetColumns([row EXCEPT ![c] = values[c]], names \ {c}, values)

UpdateWhere(rows, asset, names, values) ==
  {IF r["asset"] = asset THEN SetColumns(r, names, values) ELSE r : r \in rows}

\* FOREIGN KEY (asset) REFERENCES positions(asset), with foreign_keys=ON.
ForeignKeyOk(rows, asset) == \E r \in rows : r["asset"] = asset

\* TradingDatabase._transaction: COMMIT when the body and the commit went
\* through, ROLLBACK to the state before BEGIN otherwise.
\* No ROLLBACK on failure: what the block wrote before it raised stays.
transaction_NoRollback(before, work, ok) == work

transaction(before, work, ok) == IF ok THEN work ELSE before

\* One `with self.db._transaction()` block of the manager: a statement on
\* table positions, then (when the block has one) an INSERT into
\* position_history.  Gives the store after the block and whether it raised.
WriteBlock(rows, hist, cols, named, rowsAfter, hasHistory, entry, fault) ==
  LET s1ok == fault # "positions_stmt" /\ StmtValid(cols, named)
      rows1 == IF s1ok THEN rowsAfter ELSE rows
      s2ok == s1ok /\ (hasHistory =>
                         /\ fault # "history_stmt"
                         /\ ForeignKeyOk(rows1, entry.asset))
      hist1 == IF s2ok /\ hasHistory THEN Append(hist, entry) ELSE hist
      ok == s2ok
      final == transaction([rows |-> rows, hist |-> hist],
                           [rows |-> rows1, hist |-> hist1], ok)
  IN [rows |-> final.rows, hist |-> final.hist, raised |-> ~ok]

\* ------------------------------------------------------ PositionManager
\* _load_positions_from_db: any exception is logged and swallowed, leaving
\* the positions loaded so far (none: the SELECT is what raises).
load_positions_from_db(rows, cols, fault) ==
  IF fault # "none" \/ ~StmtValid(cols, LoadColumns)
  THEN {}
  ELSE {from_dict(r) : r \in {x \in rows : x["status"] \notin {"closed", "liquidated"}}}

\* add_position
add_position(ledger, rows, hist, cols, position, fault) ==
  LET ledger1 == DictSet(ledger, position.asset, position)
      entry == [asset |-> position.asset,
                event_type |-> IF position.last_reconciled_at = NULL
                               THEN "opened" ELSE "updated",
                new_values |-> [size |-> position.size,
                                current_price |-> position.current_price,
                                entry_price |-> position.entry_price,
                                venue |-> position.venue,
                                status |-> StatusValue(position.status)]]
      w == WriteBlock(rows, hist, cols, InsertColumns,
                      IF StmtValid(cols, InsertColumns)
                      THEN InsertOrReplace(rows, RowOf(cols, position)) ELSE rows,
                      TRUE, entry, fault)
  IN [positions |-> ledger1, rows |-> w.rows, hist |-> w.hist,
      result |-> IF w.raised THEN "raised" ELSE "ok"]

\* realized_pnl = (close_price - position.entry_price) * position.size
\* The same with the magnitude of the size.
realized_pnl_Magnitude(close_price, position) ==
  (close_price - position.entry_price)
    * (IF position.size < 0 THEN -position.size ELSE position.size)

realized_pnl(close_price, position) ==
  (close_price - position.entry_price) * position.size

\* partial_pnl = (reduction_price - position.entry_price) * reduction_size
partial_pnl(reduction_price, position, reduction_size) ==
  (reduction_price - position.entry_price) * reduction_size

\* close_position
close_position(ledger, rows, hist, cols, asset, close_price, fault) ==
  IF get(ledger, asset) = None
  THEN [positions |-> ledger, rows |-> rows, hist |-> hist, result |-> "none"]
  ELSE
    LET old == get(ledger, asset)
        pnl == realized_pnl(close_price, old)
        position == [old EXCEPT !.current_price = close_price,
                                !.status = "CLOSED",
                                !.closed_at = TS]
        ledger1 == DictSet(ledger, asset, position)
        values == [c \in CloseUpdateColumns |->
                     CASE c = "status" -> StatusValue(position.status)
                       [] c = "current_price" -> close_price
                       [] c = "closed_at" -> position.closed_at]
        entry == [asset |-> asset, event_type |-> "closed",
                  new_values |-> [close_price |-> close_price,
                                  realized_pnl |-> pnl,
                                  status |-> StatusValue(position.status)]]
        w == WriteBlock(rows, hist, cols, CloseUpdateColumns,
                        IF StmtValid(cols, CloseUpdateColumns)
                        THEN UpdateWhere(rows, asset, CloseUpdateColumns, values)
                        ELSE rows,
                        TRUE, entry, fault)
    IN IF w.raised
       THEN [positions |-> ledger1, rows |-> w.rows, hist |-> w.hist,
             result |-> "raised"]
       ELSE [positions |-> DictDel(ledger1, asset), rows |-> w.rows,
             hist |-> w.hist, result |-> "ok"]

\* reduce_position
reduce_position(ledger, rows, hist, cols, asset, amount, reduction_price, fault) ==
  IF get(ledger, asset) = None
  THEN [positions |-> ledger, rows |-> rows, hist |-> hist, result |-> "none"]
  ELSE
    LET old == get(ledger, asset)
        reduction_size == IF amount > old.size THEN old.size ELSE amount
        pnl == partial_pnl(reduction_price, old, reduction_size)
        new_size == old.size - reduction_size
        position == IF new_size <= 0
                    THEN [old EXCEPT !.size = new_size,
                                     !.current_price = reduction_price,
                                     !.status = "CLOSED",
                                     !.closed_at = TS]
                    ELSE [old EXCEPT !.size = new_size,
                                     !.current_price = reduction_price,
                                     !.status = "REDUCED"]
        ledger1 == DictSet(ledger, asset, position)
        values == [c \in ReduceUpdateColumns |->
                     CASE c = "size" -> position.size
                       [] c = "current_price" -> reduction_price
                       [] c = "status" -> StatusValue(position.status)]
        entry == [asset |-> asset, event_type |-> "reduced",
                  new_values |-> [old_size |-> old.size,
                                  new_size |-> position.size,
                                  reduced_amount |-> reduction_size,
                                  partial_pnl |-> pnl,
                                  reduction_price |-> reduction_price]]
        w == WriteBlock(rows, hist, cols, ReduceUpdateColumns,
                        IF StmtValid(cols, ReduceUpdateColumns)
                        THEN UpdateWhere(rows, asset, ReduceUpdateColumns, values)
                        ELSE rows,
                        TRUE, entry, fault)
    IN [positions |-> ledger1, rows |-> w.rows, hist |-> w.hist,
        result |-> IF w.raised THEN "raised" ELSE "ok"]

\* update_position_prices: the loop over price_updates.items(), from item i.
\* The try encloses the whole loop: the first failing item ends the call.
NoEntry == [asset |-> NULL]

\* The loop without the test `asset in self.positions`: the UPDATE of every
\* item runs, whether or not the ledger holds the asset.
price_loop_Unguarded(ledger, rows, cols, batch, i, failAt) ==
  LET named(r) == {k \in i..Len(batch) : batch[k][1] = r["asset"]}
  IN [positions |-> ledger,
      rows |-> {IF named(r) = {} THEN r
                ELSE [r EXCEPT !["current_price"] =
                                 batch[CHOOSE k \in named(r) : TRUE][2]] :
                r \in rows}]

RECURSIVE price_loop(_, _, _, _, _, _)
price_loop(ledger, rows, cols, batch, i, failAt) ==
  IF i > Len(batch) THEN [positions |-> ledger, rows |-> rows]
  ELSE
    LET asset == batch[i][1]
        price == batch[i][2]
    IN IF ~DictHas(ledger, asset)
       THEN price_loop(ledger, rows, cols, batch, i + 1, failAt)
       ELSE
         LET position == [DictGet(ledger, asset) EXCEPT !.current_price = price]
             ledger1 == DictSet(ledger, asset, position)
             values == [c \in PriceUpdateColumns |-> price]
             w == WriteBlock(rows, <<>>, cols, PriceUpdateColumns,
                             UpdateWhere(rows, asset, PriceUpdateColumns, values),
                             FALSE, NoEntry,
                             IF failAt = i THEN "positions_stmt" ELSE "none")
         IN IF w.raised
            THEN [positions |-> ledger1, rows |-> w.rows]
            ELSE price_loop(ledger1, w.rows, cols, batch, i + 1, failAt)

update_position_prices(ledger, rows, cols, batch, failAt) ==
  price_loop(ledger, rows, cols, batch, 1, failAt)

\* ------------------------------------------------- reconcile_with_exchange
\* The tolerances 0.0001 (size) and 0.01 (current_price), in units of half a
\* tolerance: a difference of one unit is inside, of two units is not.
SizeTolerance == 2
PriceTolerance == 2

abs(x) == IF x < 0 THEN -x ELSE x

\* abs(a - b) < tolerance
\* The comparison with the bound included.
within_Inclusive(a, b, tolerance) == abs(a - b) <= tolerance

within(a, b, tolerance) == abs(a - b) < tolerance

\* exchange_pos.get(key, default)
dict_get(d, key, default) == IF key \in DOMAIN d THEN d[key] ELSE default

\* datetime.utcnow().isoformat() at clock reading t.
isoformat(t) == <<"t1", "t2", "t3", "t4", "t5", "t6", "t7", "t8">>[t]

\* One turn of the loop over self.positions.items().
\* The same turn taking size and current_price from the exchange.
reconcile_entry_Overwrite(local_pos, exchange_positions, now) ==
  IF local_pos.asset \notin DOMAIN exchange_positions
  THEN [local_pos EXCEPT !.reconciliation_status = "DRIFT_DETECTED"]
  ELSE
    LET exchange_pos == exchange_positions[local_pos.asset]
    IN [local_pos EXCEPT !.reconciliation_status = "SYNCED",
                         !.last_reconciled_at = now,
                         !.size = dict_get(exchange_pos, "size", 0),
                         !.current_price = dict_get(exchange_pos, "current_price", 0)]

\* The same turn correcting a drifted entry from the exchange.
reconcile_entry_Heal(local_pos, exchange_positions, now) ==
  IF local_pos.asset \notin DOMAIN exchange_positions
  THEN [local_pos EXCEPT !.reconciliation_status = "DRIFT_DETECTED"]
  ELSE
    LET exchange_pos == exchange_positions[local_pos.asset]
        size_match == abs(local_pos.size - dict_get(exchange_pos, "size", 0))
                        < SizeTolerance
        price_match == abs(local_pos.current_price
                             - dict_get(exchange_pos, "current_price", 0))
                         < PriceTolerance
    IN IF size_match /\ price_match
       THEN [local_pos EXCEPT !.reconciliation_status = "SYNCED",
                              !.last_reconciled_at = now]
       ELSE [local_pos EXCEPT !.reconciliation_status = "DRIFT_DETECTED",
                              !.size = dict_get(exchange_pos, "size", 0),
                              !.current_price =
                                 dict_get(exchange_pos, "current_price", 0)]

reconcile_entry(local_pos, exchange_positions, now) ==
  IF local_pos.asset \notin DOMAIN exchange_positions
  THEN [local_pos EXCEPT !.reconciliation_status = "DRIFT_DETECTED"]
  ELSE
    LET exchange_pos == exchange_positions[local_pos.asset]
        size_match == within(local_pos.size, dict_get(exchange_pos, "size", 0),
                             SizeTolerance)
        price_match == within(local_pos.current_price,
                              dict_get(exchange_pos, "current_price", 0),
                              PriceTolerance)
    IN IF size_match /\ price_match
       THEN [local_pos EXCEPT !.reconciliation_status = "SYNCED",
                              !.last_reconciled_at = now]
       ELSE [local_pos EXCEPT !.reconciliation_status = "DRIFT_DETECTED"]

\* The same pass opening a position for every asset only the exchange holds.
reconcile_with_exchange_AutoCreate(ledger, exchange_positions, now) ==
  LET after == {reconcile_entry(p, exchange_positions, now) : p \in ledger}
      created ==
        {Position(asset, dict_get(exchange_positions[asset], "current_price", 0),
                  dict_get(exchange_positions[asset], "current_price", 0),
                  dict_get(exchange_positions[asset], "size", 0),
                  "hyperliquid", "OPEN") :
           asset \in DOMAIN exchange_positions \ DictKeys(ledger)}
  IN [positions |-> after \cup created,
      synced |-> {p.asset : p \in {q \in after : q.reconciliation_status = "SYNCED"}},
      drifts |-> {p.asset : p \in {q \in after :
                                     q.reconciliation_status = "DRIFT_DETECTED"}},
      missing |-> DOMAIN exchange_positions \ DictKeys(ledger)]

\* The lists synced, drifts and missing are given as sets: their order is the
\* iteration order of the two dicts.
reconcile_with_exchange(ledger, exchange_positions, now) ==
  LET after == {reconcile_entry(p, exchange_positions, now) : p \in ledger}
  IN [positions |-> after,
      synced |-> {p.asset : p \in {q \in after : q.reconciliation_status = "SYNCED"}},
      drifts |-> {p.asset : p \in {q \in after :
                                     q.reconciliation_status = "DRIFT_DETECTED"}},
      missing |-> DOMAIN exchange_positions \ DictKeys(ledger)]

\* What an exchange reports for one asset: the ledger's opening values, values
\* inside both tolerances, a size at the tolerance, and a report with no size.
ExchangeReports ==
  {[size |-> 2, current_price |-> 2], [size |-> 3, current_price |-> 3],
   [size |-> 4, current_price |-> 2], [current_price |-> 2]}

\* The dicts {asset: position_data} a caller can pass.
ExchangeSnapshots == UNION {[A -> ExchangeReports] : A \in SUBSET Assets}

\* The dicts a caller can pass: one asset, or two in either insertion order.
PriceBatches ==
  {<<<<a, p>>>> : a \in Assets, p \in Prices}
    \cup {b \in {<<<<a, p>>, <<c, p>>>> : a \in Assets, c \in Assets, p \in Prices} :
            b[1][1] # b[2][1]}

\* ------------------------------------------- ExchangeReconciliationManager
\* Sizes of exchange positions are in tenths, allocations in percent. The
\* timestamps of a report are left out.
ExchangePosition(asset, exchange, size, current_price) ==
  [asset |-> asset, exchange |-> exchange, size |-> size,
   current_price |-> current_price]

get_mock_positions(exchange) ==
  IF exchange = "hyperliquid"
  THEN <<ExchangePosition("BTC/USD", "hyperliquid", 5, 42500),
         ExchangePosition("ETH/USD", "hyperliquid", 50, 2350)>>
  ELSE <<ExchangePosition("BTC/USD", "coinbase", 1, 42500),
         ExchangePosition("ETH/USD", "coinbase", 10, 2350)>>

\* What the API call of a reconciler with credentials can do.
ApiOutcomes == {"returned", "raised"}

\* get_open_positions with nothing to catch the exception of the API call.
get_open_positions_NoExcept(exchange, ready, api) ==
  IF ~ready
  THEN [raised |-> FALSE, value |-> get_mock_positions(exchange)]
  ELSE [raised |-> api = "raised", value |-> <<>>]

\* get_open_positions of a reconciler: without credentials the mock
\* positions; with credentials the empty list, after the API call returned
\* and after it raised.
get_open_positions(exchange, ready, api) ==
  IF ~ready
  THEN [raised |-> FALSE, value |-> get_mock_positions(exchange)]
  ELSE IF api = "raised"
       THEN [raised |-> FALSE, value |-> <<>>]
       ELSE [raised |-> FALSE, value |-> <<>>]

hyperliquid_allocation == 80
coinbase_allocation == 20

\* list({pos.asset: pos for pos in list}.keys()): the assets in the order of
\* their first item.
RECURSIVE dict_keys(_, _)
dict_keys(list, i) ==
  IF i > Len(list) THEN <<>>
  ELSE IF \E j \in 1..(i - 1) : list[j].asset = list[i].asset
       THEN dict_keys(list, i + 1)
       ELSE <<list[i].asset>> \o dict_keys(list, i + 1)

\* {pos.asset: pos for pos in list}: a later item replaces an earlier one of
\* the same asset.
dict_by_asset(list) ==
  [asset \in {list[i].asset : i \in DOMAIN list} |->
     list[CHOOSE i \in DOMAIN list :
            /\ list[i].asset = asset
            /\ \A j \in DOMAIN list : list[j].asset = asset => j <= i]]

\* reconcile_all after its two awaits.
reconcile_results(hl_positions, cb_positions) ==
  LET all_positions == dict_by_asset(hl_positions \o cb_positions)
  IN [exchanges |->
        [hyperliquid |-> [positions |-> Len(hl_positions),
                          allocation |-> hyperliquid_allocation],
         coinbase |-> [positions |-> Len(cb_positions),
                       allocation |-> coinbase_allocation]],
      total_positions |-> Cardinality(DOMAIN all_positions),
      assets |-> dict_keys(hl_positions \o cb_positions, 1)]

\* The dict of the except branch of reconcile_all.
ErrorResults == [error |-> "raised"]

\* The callers of reconcile_all: start_continuous_reconciliation and the
\* endpoint sync_with_exchanges.
Callers == {"loop", "sync"}

\* A coroutine of reconcile_all: where it is suspended, what it has fetched,
\* the exchanges whose API call raised (logged), and what it returned.
IdlePass ==
  [pc |-> "idle", hl_positions |-> <<>>, cb_positions |-> <<>>,
   raised |-> {}, results |-> None]

\* The pass done: the loop goes to asyncio.sleep, the endpoint returns.
\* The loop returning after a pass during which an API call raised.
completed_ReturnOnError(caller, pass, results) ==
  [pass EXCEPT !.pc = IF caller = "loop" /\ pass.raised = {}
                      THEN "sleep" ELSE "idle",
               !.results = results]

completed(caller, pass, results) ==
  [pass EXCEPT !.pc = IF caller = "loop" THEN "sleep" ELSE "idle",
               !.results = results]

\* From the return of coinbase.get_open_positions to the end.
after_coinbase(caller, pass, cb) ==
  IF cb.raised
  THEN completed(caller, pass, ErrorResults)
  ELSE completed(caller, [pass EXCEPT !.cb_positions = cb.value],
                 reconcile_results(pass.hl_positions, cb.value))

\* From the return of hyperliquid.get_open_positions to the next suspension
\* or the end.
after_hyperliquid(caller, pass, hl, ready) ==
  IF hl.raised
  THEN completed(caller, pass, ErrorResults)
  ELSE LET fetched == [pass EXCEPT !.hl_positions = hl.value]
       IN IF ready["coinbase"]
          THEN [fetched EXCEPT !.pc = "await_coinbase"]
          ELSE after_coinbase(caller, fetched,
                              get_open_positions("coinbase", FALSE, "returned"))

\* reconcile_all from its first line to the first suspension or the end.
reconcile_all(caller, ready) ==
  IF ready["hyperliquid"]
  THEN [IdlePass EXCEPT !.pc = "await_hyperliquid"]
  ELSE after_hyperliquid(caller, IdlePass,
                         get_open_positions("hyperliquid", FALSE, "returned"), ready)

\* reconcile_all resumed when the API call it awaits is over.
resume(caller, pass, ready, api) ==
  LET noted == IF api = "raised"
               THEN [pass EXCEPT !.raised =
                       @ \cup {IF pass.pc = "await_hyperliquid"
                               THEN "hyperliquid" ELSE "coinbase"}]
               ELSE pass
  IN IF pass.pc = "await_hyperliquid"
     THEN after_hyperliquid(caller, noted,
                            get_open_positions("hyperliquid", TRUE, api), ready)
     ELSE after_coinbase(caller, noted, get_open_positions("coinbase", TRUE, api))

InFlight == {"await_hyperliquid", "await_coinbase"}
Done(pass) == pass.pc \notin InFlight

\* self._last_reconciliation = results, reached only when nothing raised.
last_reconciliation(old, pass) ==
  IF Done(pass) /\ pass.results # ErrorResults THEN pass.results ELSE old

\* ExchangeReconciliationManager.__init__ with the credentials given.
ReconcilerInit(ready) ==
  [ready |-> ready, last_reconciliation |-> None, drift_history |-> <<>>]

NoCredentials == [exchange \in Venues |-> FALSE]

\* ------------------------------------------------------------ allocation
\* A quotient of two floats, kept as the pair of its terms in lowest terms
\* (den > 0): two quotients are the same number when the pairs are equal.
RECURSIVE gcd(_, _)
gcd(a, b) == IF b = 0 THEN a ELSE gcd(b, a % b)

Fraction(num, den) ==
  LET g == gcd(abs(num), den)
  IN [num |-> num \div g, den |-> den \div g]

\* sum(abs(p["size"] * p["current_price"]) for p in list)
RECURSIVE notional_abs(_)
notional_abs(list) ==
  IF list = <<>> THEN 0
  ELSE abs(Head(list).size * Head(list).current_price) + notional_abs(Tail(list))

\* sum(p.size * p.current_price for p in list)
RECURSIVE notional_signed(_)
notional_signed(list) ==
  IF list = <<>> THEN 0
  ELSE Head(list).size * Head(list).current_price + notional_signed(Tail(list))

\* (notional / total_notional) if total_notional > 0 else 0
actual_share(notional, total_notional) ==
  IF total_notional > 0 THEN Fraction(notional, total_notional) ELSE Fraction(0, 1)

\* abs(actual - target), the target in percent
allocation_drift(actual, target) ==
  Fraction(abs(100 * actual.num - target * actual.den), 100 * actual.den)

\* fraction < percent / 100
less_than(fraction, percent) == 100 * fraction.num < percent * fraction.den

\* UnifiedExchangeClient.__init__: the targets, in percent.
hl_allocation == 80
cb_allocation == 20

\* The 5% tolerance of validate_allocation.
AllocationTolerance == 5

\* UnifiedExchangeClient.get_all_positions: the __dict__ of what the two API
\* clients returned, or the exception of the one that raised.
get_all_positions(hl_positions, cb_positions, api) ==
  IF api = "raised"
  THEN [raised |-> TRUE]
  ELSE [raised |-> FALSE,
        positions |-> [hyperliquid |-> hl_positions, coinbase |-> cb_positions]]

\* _select_exchange_for_order letting the exception of the fetch through.
select_exchange_for_order_Reraise(fetch) ==
  IF fetch.raised THEN "raised"
  ELSE LET hl_notional == notional_abs(fetch.positions["hyperliquid"])
           cb_notional == notional_abs(fetch.positions["coinbase"])
       IN IF less_than(actual_share(hl_notional, hl_notional + cb_notional),
                       hl_allocation)
          THEN "hyperliquid" ELSE "coinbase"

\* _select_exchange_for_order: the exchange it returns.
select_exchange_for_order(fetch) ==
  IF fetch.raised THEN "hyperliquid"
  ELSE LET hl_notional == notional_abs(fetch.positions["hyperliquid"])
           cb_notional == notional_abs(fetch.positions["coinbase"])
           total_notional == hl_notional + cb_notional
           hl_actual == actual_share(hl_notional, total_notional)
       IN IF less_than(hl_actual, hl_allocation)
          THEN "hyperliquid" ELSE "coinbase"

\* get_allocation_status: the dict it returns; the exception of the fetch is
\* logged and raised again.
get_allocation_status(fetch) ==
  IF fetch.raised THEN [raised |-> TRUE]
  ELSE LET hl_notional == notional_abs(fetch.positions["hyperliquid"])
           cb_notional == notional_abs(fetch.positions["coinbase"])
           total_notional == hl_notional + cb_notional
           hl_actual == actual_share(hl_notional, total_notional)
           cb_actual == actual_share(cb_notional, total_notional)
       IN [raised |-> FALSE,
           hyperliquid |-> [target |-> hl_allocation, actual |-> hl_actual,
                            drift |-> allocation_drift(hl_actual, hl_allocation),
                            notional_value |-> hl_notional],
           coinbase |-> [target |-> cb_allocation, actual |-> cb_actual,
                         drift |-> allocation_drift(cb_actual, cb_allocation),
                         notional_value |-> cb_notional],
           total_notional |-> total_notional]

\* validate_allocation: results['allocations'] for the two lists fetched.
validate_allocation(hl_positions, cb_positions) ==
  LET hl_notional == notional_signed(hl_positions)
      cb_notional == notional_signed(cb_positions)
      total_notional == hl_notional + cb_notional
      hl_actual == actual_share(hl_notional, total_notional)
      cb_actual == actual_share(cb_notional, total_notional)
      hl_drift == allocation_drift(hl_actual, hyperliquid_allocation)
      cb_drift == allocation_drift(cb_actual, coinbase_allocation)
  IN [hyperliquid |-> [target |-> hyperliquid_allocation, actual |-> hl_actual,
                       drift |-> hl_drift, notional_value |-> hl_notional,
                       within_tolerance |-> less_than(hl_drift, AllocationTolerance)],
      coinbase |-> [target |-> coinbase_allocation, actual |-> cb_actual,
                    drift |-> cb_drift, notional_value |-> cb_notional,
                    within_tolerance |-> less_than(cb_drift, AllocationTolerance)]]

\* if hl_drift >= 0.05 or cb_drift >= 0.05: self._drift_history.append(results)
drift_history_after(history, results) ==
  IF \/ ~less_than(results["hyperliquid"].drift, AllocationTolerance)
     \/ ~less_than(results["coinbase"].drift, AllocationTolerance)
  THEN Append(history, results) ELSE history

\* What the API client of an exchange can return: no position, one position
\* or two, long or short; sizes such that the Hyperliquid share can be 0.9,
\* exactly 0.8, and less.
ClientSizes == {-1, 1, 4, 9}
ClientPosition(asset, size, current_price) ==
  [asset |-> asset, size |-> size, current_price |-> current_price]
ClientLists ==
  {<<>>}
    \cup {<<ClientPosition("BTC", size, 1)>> : size \in ClientSizes}
    \cup {<<ClientPosition("BTC", size, 1), ClientPosition("ETH", -1, 2)>> :
            size \in ClientSizes}

\* What a reconciler can return: nothing, its mock positions, a short.
ReconcilerLists(exchange) ==
  IF exchange = "hyperliquid"
  THEN {get_mock_positions(exchange),
        <<ExchangePosition("ETH/USD", exchange, -10, 2350)>>}
  ELSE {<<>>, get_mock_positions(exchange)}

\* get_drift_history: self._drift_history[-limit:], the slice as Python takes
\* it: -0 is 0, so a limit of 0 starts the slice at the first event; a limit
\* beyond the length starts it there too; a negative limit drops a prefix.
get_drift_history(history, limit) ==
  LET n == Len(history)
      start == IF limit > 0 THEN (IF limit > n THEN 0 ELSE n - limit)
               ELSE (IF -limit > n THEN n ELSE -limit)
  IN SubSeq(history, start + 1, n)

\* The default of get_drift_history's limit parameter.
DefaultLimit == 10

\* clear_drift_history: self._drift_history = []
clear_drift_history(history) == <<>>

\* The limits a caller of the drift-history endpoint passes: any int.
Limits == {-1, 0, 1, 2, DefaultLimit}

\* The number of drift events a run records: one more than DefaultLimit.
MaxDriftEvents == 11

\* The fetches of an allocation check: the two mocks (within tolerance),
\* Coinbase empty, a Hyperliquid short (both drifting, different events).
DriftFetches ==
  {<<get_mock_positions("hyperliquid"), get_mock_positions("coinbase")>>,
   <<get_mock_positions("hyperliquid"), <<>> >>,
   <<<<ExchangePosition("ETH/USD", "hyperliquid", -10, 2350)>>,
     get_mock_positions("coinbase")>>}

\* ----------------------------------------- the connection, by statement
\* sqlite3.connect(..., check_same_thread=False, isolation_level=None): one
\* connection, in autocommit mode unless a BEGIN has been executed on it.
Autocommit == [in_transaction |-> FALSE, before |-> None]

\* conn.execute("BEGIN IMMEDIATE"): "cannot start a transaction within a
\* transaction" when one is open on the connection.
begin_immediate(conn, rows, hist) ==
  IF conn.in_transaction
  THEN [raised |-> TRUE, connection |-> conn]
  ELSE [raised |-> FALSE,
        connection |-> [in_transaction |-> TRUE,
                        before |-> [rows |-> rows, hist |-> hist]]]

\* conn.execute("COMMIT"): "cannot commit - no transaction is active"
\* in autocommit mode.
commit(conn) ==
  IF conn.in_transaction
  THEN [raised |-> FALSE, connection |-> Autocommit]
  ELSE [raised |-> TRUE, connection |-> conn]

\* conn.execute("ROLLBACK"): undoes whatever was written on the connection
\* since its BEGIN; "cannot rollback - no transaction is active" in
\* autocommit mode.
rollback(conn, rows, hist) ==
  IF conn.in_transaction
  THEN [raised |-> FALSE, connection |-> Autocommit,
        rows |-> conn.before.rows, hist |-> conn.before.hist]
  ELSE [raised |-> TRUE, connection |-> conn, rows |-> rows, hist |-> hist]

\* The row add_position inserts into position_history.
history_entry(position) ==
  [asset |-> position.asset,
   event_type |-> IF position.last_reconciled_at = NULL THEN "opened" ELSE "updated",
   new_values |-> [size |-> position.size,
                   current_price |-> position.current_price,
                   entry_price |-> position.entry_price,
                   venue |-> position.venue,
                   status |-> StatusValue(position.status)]]

Threads == {"A", "B"}
IdleThread == [pc |-> "idle", position |-> None]
InBlock == {"insert", "history", "commit"}

\* ------------------------------------------------------------------ Init
Init ==
  /\ positions = {}
  /\ db_positions = {}
  /\ db_history = <<>>
  /\ columns \in Schemas
  /\ faulty = TRUE
  /\ calls = 0
  /\ response = [op |-> "init", asset |-> NULL, result |-> "ok", fault |-> "none"]
  /\ reconciler = ReconcilerInit(NoCredentials)
  /\ passes = [caller \in Callers |-> IdlePass]
  /\ connection = Autocommit
  /\ threads = [t \in Threads |-> IdleThread]

FaultAllowed(fault) == fault = "none" \/ faulty

\* A call on the position manager from the event loop: it is counted, it
\* leaves the reconciliation manager alone, and its transactions begin and
\* end within the call.
Call ==
  /\ calls < MaxCalls
  /\ calls' = calls + 1
  /\ UNCHANGED <<reconciler, passes, connection, threads>>

\* --------------------------------------------------------------- actions
\* POST /api/positions/open
open_position ==
  \E asset \in Assets, entry_price \in EntryPrices, size \in Sizes,
     venue \in Venues, fault \in BlockFaults :
    /\ Call
    /\ FaultAllowed(fault)
    /\ LET position == Position(asset, entry_price, entry_price, size, venue, "OPENING")
           r == add_position(positions, db_positions, db_history, columns,
                             position, fault)
       IN /\ positions' = r.positions
          /\ db_positions' = r.rows
          /\ db_history' = r.hist
          /\ response' = [op |-> "open", asset |-> asset, result |-> r.result,
                          fault |-> fault]
    /\ UNCHANGED <<columns, faulty>>

\* POST /api/positions/{asset}/close
close_position_endpoint ==
  \E asset \in Assets, close_price \in Prices, fault \in BlockFaults :
    /\ Call
    /\ FaultAllowed(fault)
    /\ LET r == close_position(positions, db_positions, db_history, columns,
                               asset, close_price, fault)
       IN /\ positions' = r.positions
          /\ db_positions' = r.rows
          /\ db_history' = r.hist
          /\ response' = [op |-> "close", asset |-> asset, result |-> r.result,
                          fault |-> fault, price |-> close_price]
    /\ UNCHANGED <<columns, faulty>>

\* POST /api/positions/{asset}/reduce
reduce_position_endpoint ==
  \E asset \in Assets, amount \in Amounts, reduction_price \in Prices,
     fault \in BlockFaults :
    /\ Call
    /\ FaultAllowed(fault)
    /\ LET r == reduce_position(positions, db_positions, db_history, columns,
                                asset, amount, reduction_price, fault)
       IN /\ positions' = r.positions
          /\ db_positions' = r.rows
          /\ db_history' = r.hist
          /\ response' = [op |-> "reduce", asset |-> asset, result |-> r.result,
                          fault |-> fault, amount |-> amount,
                          price |-> reduction_price]
    /\ UNCHANGED <<columns, faulty>>

\* A caller of update_position_prices.
price_update ==
  \E batch \in PriceBatches, failAt \in 0..2 :
    /\ Call
    /\ failAt = 0 \/ (failAt <= Len(batch) /\ faulty)
    /\ LET r == update_position_prices(positions, db_positions, columns, batch, failAt)
       IN /\ positions' = r.positions
          /\ db_positions' = r.rows
          /\ response' = [op |-> "price", asset |-> NULL, result |-> "ok",
                          fault |-> IF failAt = 0 THEN "none" ELSE "positions_stmt",
                          batch |-> batch, failAt |-> failAt]
    /\ UNCHANGED <<db_history, columns, faulty>>

\* Process restart: PositionManager.__init__ over the same database.
restart ==
  \E fault \in {"none", "select"} :
    /\ Call
    /\ FaultAllowed(fault)
    /\ positions' = load_positions_from_db(db_positions, columns, fault)
    /\ response' = [op |-> "restart", asset |-> NULL, result |-> "ok", fault |-> fault]
    /\ UNCHANGED <<db_positions, db_history, columns, faulty>>

\* A caller of reconcile_with_exchange. The field repeat records that the
\* call before this one was a pass over the same exchange_positions.
reconcile ==
  \E exchange_positions \in ExchangeSnapshots :
    /\ Call
    /\ LET r == reconcile_with_exchange(positions, exchange_positions,
                                        isoformat(calls + 1))
       IN /\ positions' = r.positions
          /\ response' = [op |-> "reconcile", asset |-> NULL, result |-> "ok",
                          fault |-> "none",
                          exchange_positions |-> exchange_positions,
                          synced |-> r.synced, drifts |-> r.drifts,
                          missing |-> r.missing,
                          repeat |-> /\ response.op = "reconcile"
                                     /\ response.exchange_positions = exchange_positions]
    /\ UNCHANGED <<db_positions, db_history, columns, faulty>>

Next ==
  \/ open_position
  \/ reduce_position_endpoint
  \/ close_position_endpoint
  \/ price_update
  \/ restart

Spec == Init /\ [][Next]_vars

\* The same program over a store that works: a database file whose positions
\* table has the status and closed_at columns, and no store failure.
InitReliable ==
  /\ positions = {}
  /\ db_positions = {}
  /\ db_history = <<>>
  /\ columns = ExtendedColumns
  /\ faulty = FALSE
  /\ calls = 0
  /\ response = [op |-> "init", asset |-> NULL, result |-> "ok", fault |-> "none"]
  /\ reconciler = ReconcilerInit(NoCredentials)
  /\ passes = [caller \in Callers |-> IdlePass]
  /\ connection = Autocommit
  /\ threads = [t \in Threads |-> IdleThread]

SpecReliable == InitReliable /\ [][Next]_vars

\* The program with reconciliation passes, over a store that works.
NextReconcile ==
  \/ open_position
  \/ reconcile
  \/ reduce_position_endpoint
  \/ close_position_endpoint
  \/ price_update
  \/ restart

SpecReconcile == InitReliable /\ [][NextReconcile]_vars

\* ------------------------------------------------- reconcile_all passes
\* One step of the coroutine of a caller, and what the step gives.
\* The frame of a coroutine that has returned is gone.
\* results['timestamp'] = datetime.utcnow().isoformat(): what tells the
\* results of a pass from those of the pass before it. The clock is kept to
\* two readings.
next_timestamp(last) ==
  IF last.op = "reconcile_all" /\ last.timestamp = isoformat(1)
  THEN isoformat(2) ELSE isoformat(1)

PassStep(caller, pass, api) ==
  /\ passes' = [passes EXCEPT ![caller] =
                  IF Done(pass) THEN [IdlePass EXCEPT !.pc = pass.pc] ELSE pass]
  /\ reconciler' = [reconciler EXCEPT !.last_reconciliation =
                                         last_reconciliation(@, pass)]
  /\ response' = [op |-> "reconcile_all", asset |-> NULL,
                  result |-> IF Done(pass) THEN "ok" ELSE "suspended",
                  fault |-> api, caller |-> caller, raised |-> pass.raised,
                  results |-> pass.results,
                  timestamp |-> next_timestamp(response)]
  /\ UNCHANGED <<positions, db_positions, db_history, columns, faulty, calls,
               connection, threads>>

\* POST /api/reconciliation/sync
sync_with_exchanges ==
  /\ passes["sync"].pc = "idle"
  /\ PassStep("sync", reconcile_all("sync", reconciler.ready), "none")

\* The first turn of the while True of start_continuous_reconciliation.
start_continuous_reconciliation ==
  /\ passes["loop"].pc = "idle"
  /\ PassStep("loop", reconcile_all("loop", reconciler.ready), "none")

\* asyncio.sleep(interval_seconds) is over: the next turn of the loop.
next_reconciliation ==
  /\ passes["loop"].pc = "sleep"
  /\ PassStep("loop", reconcile_all("loop", reconciler.ready), "none")

\* The API call a pass awaits returns or raises.
call_over(caller) ==
  \E api \in ApiOutcomes :
    /\ passes[caller].pc \in InFlight
    /\ PassStep(caller, resume(caller, passes[caller], reconciler.ready, api), api)

api_call_over == \E caller \in Callers : call_over(caller)

\* The ledger and the reconciliation manager of one process, with any
\* credentials.
InitPasses ==
  /\ positions = {}
  /\ db_positions = {}
  /\ db_history = <<>>
  /\ columns = ExtendedColumns
  /\ faulty = FALSE
  /\ calls = 0
  /\ response = [op |-> "init", asset |-> NULL, result |-> "ok", fault |-> "none"]
  /\ \E ready \in [Venues -> BOOLEAN] : reconciler = ReconcilerInit(ready)
  /\ passes = [caller \in Callers |-> IdlePass]
  /\ connection = Autocommit
  /\ threads = [t \in Threads |-> IdleThread]

NextPasses ==
  \/ open_position
  \/ sync_with_exchanges
  \/ start_continuous_reconciliation
  \/ next_reconciliation
  \/ api_call_over

SpecPasses == InitPasses /\ [][NextPasses]_vars

\* The loop by itself and a caller of the endpoint, with what the event loop
\* guarantees: a sleep that is due returns, and an API call the loop awaits
\* returns or raises (the session's request timeout).
NextLoop ==
  \/ sync_with_exchanges
  \/ start_continuous_reconciliation
  \/ next_reconciliation
  \/ api_call_over

SpecLoop ==
  /\ InitPasses
  /\ [][NextLoop]_vars
  /\ WF_vars(next_reconciliation)
  /\ WF_vars(call_over("loop"))

\* ------------------------------------- add_position on a shared connection
\* PositionManager.add_position run by threads that share the manager and
\* its TradingDatabase; a thread can be preempted between two statements.
ThreadStep(t, next, result, step) ==
  /\ threads' = [threads EXCEPT ![t] = next]
  /\ response' = [op |-> "add_position", asset |-> threads'[t].position.asset,
                  result |-> result, fault |-> "none", thread |-> t, step |-> step]
  /\ UNCHANGED <<columns, faulty, reconciler, passes>>

\* The except branch of _transaction, then that of add_position: ROLLBACK,
\* and the exception (of the block or of the ROLLBACK) goes to the caller.
ThreadRaises(t, step) ==
  LET r == rollback(connection, db_positions, db_history)
  IN /\ connection' = r.connection
     /\ db_positions' = r.rows
     /\ db_history' = r.hist
     /\ threads' = [threads EXCEPT ![t].pc = "idle"]
     /\ response' = [op |-> "add_position", asset |-> threads'[t].position.asset,
                     result |-> "raised", fault |-> "none", thread |-> t,
                     step |-> step]
     /\ UNCHANGED <<columns, faulty, reconciler, passes>>

\* self.positions[position.asset] = position, then BEGIN IMMEDIATE.
add_position_begin ==
  \E t \in Threads, asset \in Assets, entry_price \in EntryPrices, size \in Sizes :
    /\ threads[t].pc = "idle"
    /\ calls < MaxCalls
    /\ calls' = calls + 1
    /\ LET position == Position(asset, entry_price, entry_price, size,
                                "hyperliquid", "OPEN")
           b == begin_immediate(connection, db_positions, db_history)
           r == rollback(connection, db_positions, db_history)
       IN /\ positions' = DictSet(positions, asset, position)
          /\ IF b.raised
             THEN /\ connection' = r.connection
                  /\ db_positions' = r.rows
                  /\ db_history' = r.hist
                  /\ ThreadStep(t, [pc |-> "idle", position |-> position],
                                "raised", "begin")
             ELSE /\ connection' = b.connection
                  /\ UNCHANGED <<db_positions, db_history>>
                  /\ ThreadStep(t, [pc |-> "insert", position |-> position],
                                "suspended", "begin")

\* INSERT OR REPLACE INTO positions
add_position_insert ==
  \E t \in Threads :
    /\ threads[t].pc = "insert"
    /\ UNCHANGED <<positions, calls>>
    /\ IF StmtValid(columns, InsertColumns)
       THEN /\ db_positions' = InsertOrReplace(db_positions,
                                               RowOf(columns, threads[t].position))
            /\ UNCHANGED <<db_history, connection>>
            /\ ThreadStep(t, [threads[t] EXCEPT !.pc = "history"],
                          "suspended", "insert")
       ELSE ThreadRaises(t, "insert")

\* INSERT INTO position_history
add_position_history ==
  \E t \in Threads :
    /\ threads[t].pc = "history"
    /\ UNCHANGED <<positions, calls>>
    /\ IF ForeignKeyOk(db_positions, threads[t].position.asset)
       THEN /\ db_history' = Append(db_history, history_entry(threads[t].position))
            /\ UNCHANGED <<db_positions, connection>>
            /\ ThreadStep(t, [threads[t] EXCEPT !.pc = "commit"],
                          "suspended", "history")
       ELSE ThreadRaises(t, "history")

\* COMMIT at the end of the with block.
add_position_commit ==
  \E t \in Threads :
    /\ threads[t].pc = "commit"
    /\ UNCHANGED <<positions, calls>>
    /\ LET c == commit(connection)
       IN IF c.raised
          THEN ThreadRaises(t, "commit")
          ELSE /\ connection' = c.connection
               /\ UNCHANGED <<db_positions, db_history>>
               /\ ThreadStep(t, [threads[t] EXCEPT !.pc = "idle"], "ok", "commit")

NextThreads ==
  \/ add_position_begin
  \/ add_position_insert
  \/ add_position_history
  \/ add_position_commit

\* Threads on the manager of a store that works.
SpecThreads == InitReliable /\ [][NextThreads]_vars

\* ------------------------------------------------------ allocation calls
\* A fetch that raises returns no list.
FetchOf(hl_positions, cb_positions, api) ==
  api = "raised" => (hl_positions = <<>> /\ cb_positions = <<>>)

\* place_order choosing the exchange of an order.
select_exchange_call ==
  \E hl_positions \in ClientLists, cb_positions \in ClientLists,
     api \in ApiOutcomes :
    /\ FetchOf(hl_positions, cb_positions, api)
    /\ response' = [op |-> "select_exchange", asset |-> NULL, fault |-> api,
                    hl_positions |-> hl_positions, cb_positions |-> cb_positions,
                    result |-> select_exchange_for_order(
                                 get_all_positions(hl_positions, cb_positions, api))]
    /\ UNCHANGED <<positions, db_positions, db_history, columns, faulty, calls,
                   reconciler, passes, connection, threads>>

\* A caller of UnifiedExchangeClient.get_allocation_status.
allocation_status_call ==
  \E hl_positions \in ClientLists, cb_positions \in ClientLists,
     api \in ApiOutcomes :
    /\ FetchOf(hl_positions, cb_positions, api)
    /\ LET r == get_allocation_status(
                  get_all_positions(hl_positions, cb_positions, api))
       IN response' = [op |-> "allocation_status", asset |-> NULL, fault |-> api,
                       hl_positions |-> hl_positions, cb_positions |-> cb_positions,
                       result |-> IF r.raised THEN "raised" ELSE "ok",
                       allocations |-> r]
    /\ UNCHANGED <<positions, db_positions, db_history, columns, faulty, calls,
                   reconciler, passes, connection, threads>>

\* A caller of ExchangeReconciliationManager.validate_allocation, with the
\* lists its two fetches returned.
validate_allocation_step(hl_positions, cb_positions) ==
  LET r == validate_allocation(hl_positions, cb_positions)
  IN /\ response' = [op |-> "validate_allocation", asset |-> NULL,
                     fault |-> "none",
                     hl_positions |-> hl_positions,
                     cb_positions |-> cb_positions,
                     result |-> "ok", allocations |-> r]
     /\ reconciler' = [reconciler EXCEPT !.drift_history =
                                           drift_history_after(@, r)]
     /\ UNCHANGED <<positions, db_positions, db_history, columns, faulty,
                    passes, connection, threads>>

validate_allocation_call ==
  \E hl_positions \in ReconcilerLists("hyperliquid"),
     cb_positions \in ReconcilerLists("coinbase") :
    /\ calls < MaxCalls
    /\ calls' = calls + 1
    /\ validate_allocation_step(hl_positions, cb_positions)

NextAllocation ==
  \/ select_exchange_call
  \/ allocation_status_call
  \/ validate_allocation_call

SpecAllocation == InitReliable /\ [][NextAllocation]_vars

\* ------------------------------------------------- the drift history
\* A run of allocation checks, as many as record MaxDriftEvents events.
allocation_check ==
  \E fetch \in DriftFetches :
    /\ Len(reconciler.drift_history) < MaxDriftEvents
    /\ validate_allocation_step(fetch[1], fetch[2])
    /\ UNCHANGED calls

\* GET /api/reconciliation/drift-history?limit=...
get_drift_history_call ==
  \E limit \in Limits :
    /\ response' = [op |-> "get_drift_history", asset |-> NULL,
                    fault |-> "none", limit |-> limit,
                    drift_events |->
                      get_drift_history(reconciler.drift_history, limit)]
    /\ UNCHANGED <<positions, db_positions, db_history, columns, faulty,
                   calls, reconciler, passes, connection, threads>>

clear_drift_history_call ==
  /\ reconciler.drift_history # <<>>
  /\ reconciler' = [reconciler EXCEPT !.drift_history =
                                        clear_drift_history(@)]
  /\ response' = [op |-> "clear_drift_history", asset |-> NULL,
                  fault |-> "none"]
  /\ UNCHANGED <<positions, db_positions, db_history, columns, faulty,
                 calls, passes, connection, threads>>

NextDrift ==
  \/ allocation_check
  \/ get_drift_history_call
  \/ clear_drift_history_call

SpecDrift == InitReliable /\ [][NextDrift]_vars

\* ------------------------------------------- reconciling the two venues
\* What a reconciler returns of an asset: nothing, the ledger's opening
\* values, or a size outside the tolerance.
VenueLists(exchange) ==
  {<<>>} \cup {<<ExchangePosition(asset, exchange, size, 2)>> :
                 asset \in Assets, size \in {2, 5}}

\* The snapshot of reconcile_all, {pos.asset: pos for pos in hl_positions +
\* cb_positions}, handed to reconcile_with_exchange as {asset: position_data}.
reconcile_venues ==
  \E hl_positions \in VenueLists("hyperliquid"),
     cb_positions \in VenueLists("coinbase") :
    /\ Call
    /\ LET all_positions == dict_by_asset(hl_positions \o cb_positions)
           r == reconcile_with_exchange(positions, all_positions,
                                        isoformat(calls + 1))
       IN /\ positions' = r.positions
          /\ response' = [op |-> "reconcile_venues", asset |-> NULL,
                          result |-> "ok", fault |-> "none",
                          hl_positions |-> hl_positions,
                          cb_positions |-> cb_positions,
                          exchange_positions |-> all_positions,
                          synced |-> r.synced, drifts |-> r.drifts,
                          missing |-> r.missing]
    /\ UNCHANGED <<db_positions, db_history, columns, faulty>>

NextVenues ==
  \/ open_position
  \/ reconcile_venues

SpecVenues == InitReliable /\ [][NextVenues]_vars

\* ------------------------------------------------------------ retention
\* closed_at < cutoff_date, cutoff_date = utcnow() - older_than_days; a NULL
\* closed_at compares as unknown.
older_than(closed_at, age, older_than_days) ==
  closed_at # NULL /\ age > older_than_days

\* clear_closed_positions: SELECT COUNT(*) and DELETE FROM positions WHERE
\* status = 'closed' AND closed_at < ?, in one transaction. With
\* foreign_keys=ON the DELETE of a row that position_history rows reference
\* raises; any exception is logged and 0 returned.
clear_closed_positions(rows, hist, cols, age, older_than_days) ==
  IF ~StmtValid(cols, {"status", "closed_at"})
  THEN [rows |-> rows, count |-> 0]
  ELSE LET matched == {r \in rows :
                         /\ r["status"] = "closed"
                         /\ older_than(r["closed_at"], age, older_than_days)}
           referenced == \E r \in matched : \E i \in 1..Len(hist) :
                           hist[i].asset = r["asset"]
           final == transaction([rows |-> rows], [rows |-> rows \ matched],
                                ~referenced)
       IN [rows |-> final.rows,
           count |-> IF referenced THEN 0 ELSE Cardinality(matched)]

\* A caller of PositionManager.clear_closed_positions with the default
\* horizon, on the day of the closes or 31 days after them.
clear_closed_positions_call ==
  \E age \in {0, 31}, older_than_days \in {30} :
    /\ Call
    /\ LET r == clear_closed_positions(db_positions, db_history, columns, age,
                                       older_than_days)
       IN /\ db_positions' = r.rows
          /\ response' = [op |-> "clear_closed", asset |-> NULL,
                          fault |-> "none", age |-> age,
                          older_than_days |-> older_than_days,
                          result |-> r.count]
    /\ UNCHANGED <<positions, db_history, columns, faulty>>

NextRetention ==
  \/ open_position
  \/ reduce_position_endpoint
  \/ close_position_endpoint
  \/ clear_closed_positions_call

SpecRetention == InitReliable /\ [][NextRetention]_vars

\* ------------------------------------------------ the execution facade
\* UnifiedExchangeClient over the two API clients. A call is given what the
\* exchanges hold (book), which of its requests raises (fault) and the status
\* the exchange answers an order with; it returns the ExecutionResult, the
\* orders an exchange accepted, the client operations invoked and whether
\* one of them raised. No operation of the facade reads or writes
\* self.position_manager.
HyperliquidPosition(asset, size, current_price) ==
  [asset |-> asset, size |-> size, current_price |-> current_price]
CoinbasePosition(product_id, size, current_price) ==
  [product_id |-> product_id, size |-> size, current_price |-> current_price]

\* cb_asset = f"{asset}-USD"
cb_asset(asset) == asset \o "-USD"

\* HyperliquidAPIClient.get_position: the first position of the asset.
hl_get_position(list, asset) ==
  LET found == {i \in 1..Len(list) : list[i].asset = asset}
  IN IF found = {} THEN None
     ELSE list[CHOOSE i \in found : \A j \in found : i <= j]

\* CoinbaseAPIClient.get_position: the first position of the product.
cb_get_position(list, product_id) ==
  LET found == {i \in 1..Len(list) : list[i].product_id = product_id}
  IN IF found = {} THEN None
     ELSE list[CHOOSE i \in found : \A j \in found : i <= j]

\* The request of a call that raises: none, the GET of the facade's
\* get_position, the GET of the client's own get_position, the POST.
RequestFaults == {"none", "get_position", "client_get_position", "order"}

ExecutionResult(success, exchange, asset, order_id, size, price, status) ==
  [success |-> success, exchange |-> exchange, asset |-> asset,
   order_id |-> order_id, size |-> size, price |-> price, status |-> status]

Order(exchange, name, side, size, price, status) ==
  [order_id |-> "order-1", exchange |-> exchange, name |-> name, side |-> side,
   size |-> size, price |-> price, status |-> status]

Raised(accepted) == [raised |-> TRUE, order |-> None, accepted |-> accepted]
Returned(order, accepted) ==
  [raised |-> FALSE, order |-> order, accepted |-> accepted]

\* HyperliquidAPIClient.place_order (default order_type MARKET): once the POST
\* has returned, the logger.info of line 429 formats order_id, a name the
\* function does not define; the NameError is logged and raised again.
hl_place_order(asset, side, size, price, status, fault) ==
  IF fault = "order" THEN Raised(<<>>)
  ELSE Raised(<<Order("hyperliquid", asset, side, size, price, status)>>)

\* CoinbaseAPIClient.place_order: MARKET and LIMIT orders require a size.
cb_place_order(product_id, side, size, price, status, fault) ==
  IF size = 0 THEN Raised(<<>>)
  ELSE IF fault = "order" THEN Raised(<<>>)
  ELSE LET order == Order("coinbase", product_id, side, size, price, status)
       IN Returned(order, <<order>>)

opposite_side(size) == IF size > 0 THEN "SELL" ELSE "BUY"

\* HyperliquidAPIClient.close_position
hl_close_position(list, asset, status, fault) ==
  IF fault = "client_get_position" THEN Raised(<<>>)
  ELSE LET position == hl_get_position(list, asset)
       IN IF position = None THEN Returned(None, <<>>)
          ELSE hl_place_order(asset, opposite_side(position.size),
                              abs(position.size), NULL, status, fault)

\* CoinbaseAPIClient.close_position
cb_close_position(list, product_id, status, fault) ==
  IF fault = "client_get_position" THEN Raised(<<>>)
  ELSE LET position == cb_get_position(list, product_id)
       IN IF position = None THEN Returned(None, <<>>)
          ELSE cb_place_order(product_id, opposite_side(position.size),
                              abs(position.size), NULL, status, fault)

\* reduction_amount = abs(position.size) when it exceeds the position
capped(reduction_amount, size) ==
  IF reduction_amount > abs(size) THEN abs(size) ELSE reduction_amount

\* HyperliquidAPIClient.reduce_position
hl_reduce_position(list, asset, reduction_amount, status, fault) ==
  IF fault = "client_get_position" THEN Raised(<<>>)
  ELSE LET position == hl_get_position(list, asset)
       IN IF position = None THEN Returned(None, <<>>)
          ELSE hl_place_order(asset, opposite_side(position.size),
                              capped(reduction_amount, position.size),
                              NULL, status, fault)

\* CoinbaseAPIClient.reduce_position
cb_reduce_position(list, product_id, reduction_amount, status, fault) ==
  IF fault = "client_get_position" THEN Raised(<<>>)
  ELSE LET position == cb_get_position(list, product_id)
       IN IF position = None THEN Returned(None, <<>>)
          ELSE cb_place_order(product_id, opposite_side(position.size),
                              capped(reduction_amount, position.size),
                              NULL, status, fault)

\* UnifiedExchangeClient.get_position: Hyperliquid first, then Coinbase under
\* the converted name; an exception is logged and None returned.
facade_get_position(asset, book, fault) ==
  IF fault = "get_position"
  THEN [pos |-> None, raised |-> TRUE,
        venue_calls |-> <<"hyperliquid.get_position">>]
  ELSE LET hl_pos == hl_get_position(book["hyperliquid"], asset)
           cb_pos == cb_get_position(book["coinbase"], cb_asset(asset))
       IN IF hl_pos # None
          THEN [pos |-> [exchange |-> "hyperliquid", position |-> hl_pos],
                raised |-> FALSE,
                venue_calls |-> <<"hyperliquid.get_position">>]
          ELSE [pos |-> IF cb_pos # None
                        THEN [exchange |-> "coinbase", position |-> cb_pos]
                        ELSE None,
                raised |-> FALSE,
                venue_calls |-> <<"hyperliquid.get_position",
                                  "coinbase.get_position">>]

NotFound(asset) ==
  ExecutionResult(FALSE, "hyperliquid", asset, "", 0, NULL, "NOT_FOUND")
Failed(exchange, asset, size, price) ==
  ExecutionResult(FALSE, exchange, asset, "", size, price, "FAILED")

\* What a call of the facade comes to.
Outcome(result, looked, client, operation) ==
  [result |-> result,
   accepted |-> IF client = None THEN <<>> ELSE client.accepted,
   venue_calls |-> looked.venue_calls
                     \o (IF client = None THEN <<>> ELSE <<operation>>),
   raised |-> looked.raised \/ (client # None /\ client.raised)]

\* UnifiedExchangeClient.close_position
facade_close_position(asset, book, status, fault) ==
  LET looked == facade_get_position(asset, book, fault)
  IN IF looked.pos = None
     THEN Outcome(NotFound(asset), looked, None, NULL)
     ELSE LET exchange == looked.pos.exchange
              order == IF exchange = "hyperliquid"
                       THEN hl_close_position(book["hyperliquid"], asset,
                                              status, fault)
                       ELSE cb_close_position(book["coinbase"],
                                              cb_asset(asset), status, fault)
              result == IF order.raised \/ order.order = None
                        THEN Failed("hyperliquid", asset, 0, NULL)
                        ELSE ExecutionResult(TRUE, exchange, asset,
                                             order.order.order_id,
                                             order.order.size,
                                             order.order.price,
                                             order.order.status)
          IN Outcome(result, looked, order, exchange \o ".close_position")

\* UnifiedExchangeClient.reduce_position
facade_reduce_position(asset, reduction_amount, book, status, fault) ==
  LET looked == facade_get_position(asset, book, fault)
  IN IF looked.pos = None
     THEN Outcome(NotFound(asset), looked, None, NULL)
     ELSE LET exchange == looked.pos.exchange
              order == IF exchange = "hyperliquid"
                       THEN hl_reduce_position(book["hyperliquid"], asset,
                                               reduction_amount, status, fault)
                       ELSE cb_reduce_position(book["coinbase"],
                                               cb_asset(asset),
                                               reduction_amount, status, fault)
              result == IF order.raised \/ order.order = None
                        THEN Failed("hyperliquid", asset, 0, NULL)
                        ELSE ExecutionResult(TRUE, exchange, asset,
                                             order.order.order_id,
                                             reduction_amount,
                                             order.order.price,
                                             order.order.status)
          IN Outcome(result, looked, order, exchange \o ".reduce_position")

\* UnifiedExchangeClient.place_order: no exchange given (NULL) selects one by allocation.
facade_place_order(asset, side, size, exchange, book, status, fault) ==
  LET fetch == get_all_positions(book["hyperliquid"], book["coinbase"],
                                 IF fault = "get_position" THEN "raised"
                                 ELSE "returned")
      target == IF exchange = NULL THEN select_exchange_for_order(fetch)
                ELSE exchange
      order == IF target = "hyperliquid"
               THEN hl_place_order(asset, side, size, NULL, status, fault)
               ELSE cb_place_order(cb_asset(asset), side, size, NULL, status,
                                   fault)
      result == IF order.raised
                THEN Failed(target, asset, size, NULL)
                ELSE ExecutionResult(TRUE, target, asset, order.order.order_id,
                                     size, NULL, order.order.status)
  IN [result |-> result, accepted |-> order.accepted,
      venue_calls |-> (IF exchange = NULL THEN <<"get_all_positions">>
                       ELSE <<>>) \o <<target \o ".place_order">>,
      raised |-> order.raised \/ (exchange = NULL /\ fetch.raised)]

\* What the two exchanges hold of an asset when the facade is called; an
\* order of size 0 is one an exchange does not accept.
Books(asset) ==
  [hyperliquid : {<<>>, <<HyperliquidPosition(asset, 2, 1)>>},
   coinbase : {<<>>, <<CoinbasePosition(cb_asset(asset), -2, 1)>>}]

FacadeResponse(op, asset, amount, book, status, fault, r) ==
  /\ response' = [op |-> op, asset |-> asset, amount |-> amount,
                  book |-> book, status |-> status, fault |-> fault,
                  result |-> r.result, accepted |-> r.accepted,
                  venue_calls |-> r.venue_calls, raised |-> r.raised]
  /\ UNCHANGED <<positions, db_positions, db_history, columns, faulty>>

close_position_call ==
  \E asset \in Assets, status \in {"FILLED"}, fault \in RequestFaults :
   \E book \in Books(asset) :
    /\ Call
    /\ FacadeResponse("facade_close", asset, 0, book, status, fault,
                      facade_close_position(asset, book, status, fault))

reduce_position_call ==
  \E asset \in Assets, reduction_amount \in Amounts,
     status \in {"FILLED"}, fault \in RequestFaults :
   \E book \in Books(asset) :
    /\ Call
    /\ FacadeResponse("facade_reduce", asset, reduction_amount, book, status,
                      fault,
                      facade_reduce_position(asset, reduction_amount, book,
                                             status, fault))

place_order_call ==
  \E asset \in Assets, side \in {"BUY", "SELL"}, size \in {0, 1},
     exchange \in Venues \cup {NULL}, status \in {"FILLED"},
     fault \in {"none", "get_position", "order"} :
   \E book \in Books(asset) :
    /\ exchange # NULL => (fault # "get_position" /\ book["hyperliquid"] = <<>>)
    /\ book["coinbase"] = <<>>
    /\ size = 0 => fault = "order"
    /\ Call
    /\ FacadeResponse("facade_place_order", asset, size, book, status, fault,
                      facade_place_order(asset, side, size, exchange, book,
                                         status, fault))

NextFacade ==
  \/ open_position
  \/ close_position_call
  \/ reduce_position_call
  \/ place_order_call

SpecFacade == InitReliable /\ [][NextFacade]_vars

\* ================================================================ claims
LifecycleOps == {"open", "reduce", "close"}
Terminal == {"CLOSED", "LIQUIDATED"}
StoreUnchanged == db_positions' = db_positions /\ db_history' = db_history
Last(s) == s[Len(s)]

\* The table row the latest committed block wrote, as its history entry
\* describes it.
RowReflects(rows, e) ==
  \E r \in rows :
    /\ r["asset"] = e.asset
    /\ CASE e.event_type = "opened" ->
              /\ r["status"] = e.new_values.status
              /\ r["size"] = e.new_values.size
              /\ r["current_price"] = e.new_values.current_price
         [] e.event_type = "reduced" ->
              /\ r["size"] = e.new_values.new_size
              /\ r["current_price"] = e.new_values.reduction_price
         [] e.event_type = "closed" ->
              /\ r["status"] = e.new_values.status
              /\ r["current_price"] = e.new_values.close_price
         [] OTHER -> FALSE

\* C1: a lifecycle operation whose store transaction fails leaves the active
\* map exactly as it was before the call.
C1_FailedWriteLeavesLedger ==
  [][(response'.op \in LifecycleOps /\ response'.result = "raised")
       => positions' = positions]_vars

\* C2: a restart yields an active map with the same assets as the map held
\* just before it, each with the same size, current_price and status.
ActiveView(d) ==
  {[asset |-> p.asset, size |-> p.size, current_price |-> p.current_price,
    status |-> p.status] : p \in d}

C2_RestartKeepsActiveMap ==
  [][response'.op = "restart" => ActiveView(positions') = ActiveView(positions)]_vars

\* C3: a write transaction of a lifecycle operation is atomic: after it the
\* store either is as before, or holds both the position-row write and the
\* one history row that describes it.
C3_TransactionAtomic ==
  [][response'.op \in LifecycleOps =>
       \/ StoreUnchanged
       \/ /\ response'.result = "ok"
          /\ Len(db_history') = Len(db_history) + 1
          /\ SubSeq(db_history', 1, Len(db_history)) = db_history
          /\ Last(db_history').asset = response'.asset
          /\ RowReflects(db_positions', Last(db_history'))]_vars

\* A committed block is followed by one that was rolled back.
C3_Witness ==
  /\ response.op \in LifecycleOps
  /\ response.result = "raised"
  /\ columns = ExtendedColumns
  /\ response.fault = "history_stmt"
  /\ db_history # <<>>

\* C4: open on an asset that already has an active position fails and leaves
\* the ledger entry, the store row and the history log unchanged.
C4_DuplicateOpenRejected ==
  [][(response'.op = "open" /\ DictHas(positions, response'.asset))
       => /\ response'.result = "raised"
          /\ positions' = positions
          /\ StoreUnchanged]_vars

\* C5: the active map holds at most one entry per asset, whatever the venue,
\* and table positions holds at most one row per asset.
C5_OneEntryPerAsset ==
  /\ \A p \in positions : \A q \in positions : p.asset = q.asset => p = q
  /\ \A r \in db_positions : \A t \in db_positions : r["asset"] = t["asset"] => r = t

\* Two committed opens of one asset on different venues.
C5_Witness ==
  \E i \in 1..Len(db_history) : \E j \in 1..Len(db_history) :
    /\ i < j
    /\ db_history[i].event_type = "opened"
    /\ db_history[j].event_type = "opened"
    /\ db_history[i].asset = db_history[j].asset
    /\ db_history[i].new_values.venue # db_history[j].new_values.venue
    /\ DictHas(positions, db_history[j].asset)

\* C6: every entry of the active map has a non-zero size and a status other
\* than CLOSED or LIQUIDATED.
C6_ActiveEntriesLive ==
  \A p \in positions : p.size # 0 /\ p.status \notin Terminal

\* C7: every status change follows an edge of the declared machine: a
\* successful open leaves the position OPEN, no reduce or close is applied to
\* a position still OPENING, and a CLOSED or LIQUIDATED position is not
\* mutated again.
Edges ==
  {<<"OPENING", "OPEN">>, <<"OPEN", "REDUCED">>, <<"OPEN", "CLOSING">>,
   <<"REDUCED", "CLOSED">>, <<"CLOSING", "CLOSED">>,
   <<"OPEN", "LIQUIDATED">>, <<"REDUCED", "LIQUIDATED">>}

RowStatus(r) == IF "status" \in DOMAIN r THEN r["status"] ELSE NULL

C7_StatusMachine ==
  [][/\ (response'.op = "open" /\ response'.result = "ok")
          => DictGet(positions', response'.asset).status = "OPEN"
     /\ response'.op \in {"reduce", "close", "price"} =>
          /\ \A p \in positions :
               /\ (p.status = "OPENING" /\ response'.op \in {"reduce", "close"}
                     /\ response'.asset = p.asset) => p \in positions'
               /\ p.status \in Terminal => p \in positions'
               /\ \A q \in positions' :
                    (q.asset = p.asset /\ q.status # p.status)
                      => <<p.status, q.status>> \in Edges
          /\ \A r \in db_positions : \A t \in db_positions' :
               (t["asset"] = r["asset"] /\ RowStatus(t) # RowStatus(r))
                 => <<StatusFromValue(RowStatus(r)), StatusFromValue(RowStatus(t))>>
                      \in Edges]_vars

\* C8: a position persisted by open, reloaded through startup recovery, gives
\* a ledger entry with the same asset, size, entry_price, venue and status.
RoundTripView(p) ==
  [asset |-> p.asset, size |-> p.size, entry_price |-> p.entry_price,
   venue |-> p.venue, status |-> p.status]

C8_OpenRoundTrip ==
  [][(response'.op = "open" /\ response'.fault = "none")
       => \E q \in load_positions_from_db(db_positions', columns, "none") :
            RoundTripView(q) = RoundTripView(DictGet(positions', response'.asset))]_vars

\* C9: startup recovery loads every store row whose status is not CLOSED or
\* LIQUIDATED, and no row whose status is.
C9_RecoveryLoadsNonTerminalRows ==
  [][response'.op = "restart"
       => DictKeys(positions') =
            {r["asset"] : r \in {x \in db_positions :
                                   RowStatus(x) \notin {"closed", "liquidated"}}}]_vars

\* C10: every operation that changes a stored position row appends exactly
\* one history entry for that asset in the same transaction, and that entry
\* describes the stored row.
C10_RowChangeHasHistory ==
  [][db_positions' # db_positions
       => /\ Len(db_history') = Len(db_history) + 1
          /\ RowReflects(db_positions', Last(db_history'))]_vars

\* C11: no lifecycle operation (open, price update, reduce, close) changes the
\* reconciliation_status of an asset's entry in the active map.
C11_LifecycleKeepsReconciliationStatus ==
  [][response'.op \in {"open", "price", "reduce", "close"}
       => \A p \in positions : \A q \in positions' :
            q.asset = p.asset => q.reconciliation_status = p.reconciliation_status]_vars

\* C12: a committed reduce of an active position, long or short, takes
\* min(amount, |size|) off the magnitude of the size and keeps its sign, and
\* the status becomes CLOSED exactly when amount >= |size|, REDUCED otherwise.
RowOfAsset(rows, asset) == CHOOSE r \in rows : r["asset"] = asset
Min(a, b) == IF a < b THEN a ELSE b
RemainingSize(size, amount) ==
  LET magnitude == abs(size) - Min(amount, abs(size))
  IN IF size < 0 THEN -magnitude ELSE magnitude

C12_ReduceClampsToMagnitude ==
  [][(response'.op = "reduce" /\ response'.result = "ok")
       => LET old == DictGet(positions, response'.asset)
              row == RowOfAsset(db_positions', response'.asset)
          IN /\ Last(db_history').new_values.new_size
                  = RemainingSize(old.size, response'.amount)
             /\ row["size"] = RemainingSize(old.size, response'.amount)
             /\ row["status"] = IF response'.amount >= abs(old.size)
                                THEN "closed" ELSE "reduced"]_vars

\* C13: a committed reduce that brings the size to zero leaves the active map
\* and the asset's row as close at the same price does: the asset is out of
\* the map and its row has status CLOSED.
C13_ReduceToZeroIsClose ==
  [][(/\ response'.op = "reduce"
      /\ response'.result = "ok"
      /\ Last(db_history').new_values.new_size = 0)
       => LET c == close_position(positions, db_positions, db_history, columns,
                                  response'.asset, response'.price, "none")
          IN /\ DictKeys(positions') = DictKeys(c.positions)
             /\ response'.asset \notin DictKeys(positions')
             /\ RowOfAsset(db_positions', response'.asset)["status"]
                  = RowOfAsset(c.rows, response'.asset)["status"]
             /\ RowOfAsset(db_positions', response'.asset)["status"] = "closed"]_vars

\* C14: close or reduce of an asset that has no entry in the active map
\* reports "not found" to the caller and changes neither the active map, nor
\* table positions, nor the history log.
C14_AbsentAssetNotFound ==
  [][(response'.op \in {"close", "reduce"} /\ ~DictHas(positions, response'.asset))
       => /\ response'.result = "none"
          /\ positions' = positions
          /\ StoreUnchanged]_vars

\* A close of an asset the map does not hold while the store has a live row
\* for it (the map was lost in a failed recovery).
C14_Witness ==
  /\ response.op = "close"
  /\ response.result = "none"
  /\ \E r \in db_positions :
       r["asset"] = response.asset /\ RowStatus(r) \notin {"closed", "liquidated"}

\* C15: a committed close of an active position takes the asset out of the
\* active map, leaves its row with status CLOSED, and appends exactly one
\* "closed" history entry whose realized PnL is (price - entry_price) * size,
\* with the size held just before the close.
C15_CloseEffect ==
  [][(response'.op = "close" /\ response'.result = "ok")
       => LET old == DictGet(positions, response'.asset)
              e == Last(db_history')
          IN /\ response'.asset \notin DictKeys(positions')
             /\ RowOfAsset(db_positions', response'.asset)["status"] = "closed"
             /\ Len(db_history') = Len(db_history) + 1
             /\ SubSeq(db_history', 1, Len(db_history)) = db_history
             /\ e.asset = response'.asset
             /\ e.event_type = "closed"
             /\ e.new_values.close_price = response'.price
             /\ e.new_values.realized_pnl
                  = (response'.price - old.entry_price) * old.size]_vars

\* A committed close, away from the entry price, of a position that a reduce
\* had made smaller than it was opened.
C15_Witness ==
  /\ response.op = "close"
  /\ response.result = "ok"
  /\ Last(db_history).new_values.realized_pnl = -1
  /\ \E i \in 1..Len(db_history) :
       /\ db_history[i].asset = response.asset
       /\ db_history[i].event_type = "reduced"

\* C16: over a run open, reduce*, close of one asset, the recorded PnLs add up.
\* The history rows of the run that ends with the "closed" row j: it starts
\* at the last "opened" row of the asset before j.
RunStart(h, j) ==
  CHOOSE i \in 1..(j - 1) :
    /\ h[i].asset = h[j].asset
    /\ h[i].event_type = "opened"
    /\ \A k \in (i + 1)..(j - 1) :
         ~(h[k].asset = h[j].asset /\ h[k].event_type = "opened")

ClosedRuns(h) ==
  {j \in 1..Len(h) :
     /\ h[j].event_type = "closed"
     /\ \E i \in 1..(j - 1) : h[i].asset = h[j].asset /\ h[i].event_type = "opened"}

IsReduceOf(h, k, j) == h[k].asset = h[j].asset /\ h[k].event_type = "reduced"

\* Sum of the partial PnLs of the reduces in rows i..(j - 1) of the run.
RECURSIVE SumPartialPnl(_, _, _)
SumPartialPnl(h, i, j) ==
  IF i >= j THEN 0
  ELSE (IF IsReduceOf(h, i, j) THEN h[i].new_values.partial_pnl ELSE 0)
         + SumPartialPnl(h, i + 1, j)

\* What the reduces would have made had they been closed at the final price:
\* the sum of (final_price - price_i) * reduced_i.
RECURSIVE SumPriceGap(_, _, _)
SumPriceGap(h, i, j) ==
  IF i >= j THEN 0
  ELSE (IF IsReduceOf(h, i, j)
        THEN (h[j].new_values.close_price - h[i].new_values.reduction_price)
               * h[i].new_values.reduced_amount
        ELSE 0)
         + SumPriceGap(h, i + 1, j)

RunTotal(h, j) ==
  SumPartialPnl(h, RunStart(h, j), j) + h[j].new_values.realized_pnl

FullSizeAtFinalPrice(h, j) ==
  (h[j].new_values.close_price - h[RunStart(h, j)].new_values.entry_price)
    * h[RunStart(h, j)].new_values.size

\* C16: the partial PnLs of the reduces plus the realized PnL of the close
\* equal (final_price - entry_price) * original_size.
C16_PnlSumAtFinalPrice ==
  \A j \in ClosedRuns(db_history) :
    RunTotal(db_history, j) = FullSizeAtFinalPrice(db_history, j)

\* C16 with each reduce valued at its own price: the partial PnLs of the
\* reduces plus the realized PnL of the close equal
\* (final_price - entry_price) * original_size less the sum over the reduces
\* of (final_price - price_i) * reduced_i.  Holds when every operation of the
\* run commits (SpecReliable).
C16_PnlSumAtOwnPrices ==
  \A j \in ClosedRuns(db_history) :
    RunTotal(db_history, j)
      = FullSizeAtFinalPrice(db_history, j)
          - SumPriceGap(db_history, RunStart(db_history, j), j)

\* C17: a price update for an asset with no active position creates no entry
\* for it, leaves its store row alone, and leaves the entries of the assets
\* the batch does not name as they are; a batch that names no active asset
\* changes nothing.
BatchAssets(batch) == {batch[i][1] : i \in 1..Len(batch)}
RowsOf(rows, asset) == {r \in rows : r["asset"] = asset}

C17_UnknownAssetPriceNoOp ==
  [][response'.op = "price"
       => LET named == BatchAssets(response'.batch)
          IN /\ \A a \in named \ DictKeys(positions) :
                  /\ a \notin DictKeys(positions')
                  /\ RowsOf(db_positions', a) = RowsOf(db_positions, a)
             /\ \A p \in positions : p.asset \notin named => p \in positions'
             /\ named \cap DictKeys(positions) = {}
                  => positions' = positions /\ StoreUnchanged]_vars

\* A price update naming an asset that has no entry in the map but has a
\* store row with another price.
C17_Witness ==
  /\ response.op = "price"
  /\ \E i \in 1..Len(response.batch) :
       /\ response.batch[i][1] \notin DictKeys(positions)
       /\ \E r \in db_positions :
            /\ r["asset"] = response.batch[i][1]
            /\ r["current_price"] # response.batch[i][2]

\* C18: when the store fails while one asset of a batch of price updates is
\* written, every other asset of the batch that is active and has a row ends
\* the call with its new current_price in the active map and in its row.
C18_BatchItemsIndependent ==
  [][(/\ response'.op = "price"
      /\ response'.failAt # 0
      /\ DictHas(positions, response'.batch[response'.failAt][1]))
       => \A j \in 1..Len(response'.batch) :
            (/\ j # response'.failAt
             /\ DictHas(positions, response'.batch[j][1])
             /\ RowsOf(db_positions, response'.batch[j][1]) # {})
              => /\ DictGet(positions', response'.batch[j][1]).current_price
                      = response'.batch[j][2]
                 /\ RowOfAsset(db_positions', response'.batch[j][1])["current_price"]
                      = response'.batch[j][2]]_vars

\* C19: a reconciliation pass classifies each asset of the active map: absent
\* from the snapshot gives DRIFT_DETECTED; present with |local.size -
\* remote.size| and |local.current_price - remote.current_price| both below
\* their tolerances gives SYNCED and sets last_reconciled_at; present but
\* outside either tolerance gives DRIFT_DETECTED with last_reconciled_at
\* unchanged.
Complete(report) == {"size", "current_price"} \subseteq DOMAIN report

InTolerance(p, report) ==
  /\ abs(p.size - report["size"]) < SizeTolerance
  /\ abs(p.current_price - report["current_price"]) < PriceTolerance

C19_ReconcileClassifies ==
  [][response'.op = "reconcile"
       => LET ex == response'.exchange_positions
          IN /\ DictKeys(positions') = DictKeys(positions)
             /\ response'.synced \cup response'.drifts = DictKeys(positions)
             /\ response'.synced \cap response'.drifts = {}
             /\ \A p \in positions :
                  LET q == DictGet(positions', p.asset)
                  IN /\ p.asset \in response'.synced
                          <=> q.reconciliation_status = "SYNCED"
                     /\ p.asset \in response'.drifts
                          <=> q.reconciliation_status = "DRIFT_DETECTED"
                     /\ p.asset \notin DOMAIN ex
                          => q.reconciliation_status = "DRIFT_DETECTED"
                     /\ (p.asset \in DOMAIN ex /\ Complete(ex[p.asset]))
                          => IF InTolerance(p, ex[p.asset])
                             THEN /\ q.reconciliation_status = "SYNCED"
                                  /\ q.last_reconciled_at = isoformat(calls')
                                  /\ q.last_reconciled_at # p.last_reconciled_at
                             ELSE /\ q.reconciliation_status = "DRIFT_DETECTED"
                                  /\ q.last_reconciled_at = p.last_reconciled_at]_vars

\* A pass that finds one asset inside the tolerances with another size than
\* the exchange reports, and one asset whose size is off by the tolerance.
C19_Witness ==
  /\ response.op = "reconcile"
  /\ \E p \in positions :
       /\ p.asset \in response.synced
       /\ Complete(response.exchange_positions[p.asset])
       /\ response.exchange_positions[p.asset]["size"] # p.size
  /\ \E p \in positions :
       /\ p.asset \in response.drifts
       /\ p.asset \in DOMAIN response.exchange_positions
       /\ Complete(response.exchange_positions[p.asset])
       /\ abs(p.size - response.exchange_positions[p.asset]["size"]) = SizeTolerance

\* C20: a reconciliation pass changes neither size, current_price,
\* entry_price, status nor venue of any entry of the active map, whatever the
\* snapshot reports.
LedgerValues(p) ==
  [asset |-> p.asset, size |-> p.size, current_price |-> p.current_price,
   entry_price |-> p.entry_price, status |-> p.status, venue |-> p.venue]

C20_ReconcileKeepsValues ==
  [][response'.op = "reconcile"
       => {LedgerValues(p) : p \in positions'} = {LedgerValues(p) : p \in positions}]_vars

\* A pass whose snapshot reports another size than the ledger holds, beyond
\* the tolerance: the entry is DRIFT_DETECTED and holds the size it had.
C20_Witness ==
  /\ response.op = "reconcile"
  /\ \E p \in positions :
       /\ p.asset \in DOMAIN response.exchange_positions
       /\ Complete(response.exchange_positions[p.asset])
       /\ p.size = 2
       /\ response.exchange_positions[p.asset]["size"] = 4
       /\ p.reconciliation_status = "DRIFT_DETECTED"

\* C21: two reconciliation passes in succession over the same exchange
\* snapshot, with no call between them, return the same synced, drifted and
\* missing sets, and every entry has the same reconciliation_status after the
\* second pass as after the first.
C21_ReconcileIdempotent ==
  [][(/\ response.op = "reconcile"
      /\ response'.op = "reconcile"
      /\ response'.exchange_positions = response.exchange_positions)
       => /\ response'.synced = response.synced
          /\ response'.drifts = response.drifts
          /\ response'.missing = response.missing
          /\ DictKeys(positions') = DictKeys(positions)
          /\ \A p \in positions :
               DictGet(positions', p.asset).reconciliation_status
                 = p.reconciliation_status]_vars

\* A second pass over the same snapshot, which reports a compared asset
\* outside the tolerances and an asset the ledger does not hold.
C21_Witness ==
  /\ response.op = "reconcile"
  /\ response.repeat
  /\ response.missing # {}
  /\ \E p \in positions :
       /\ p.asset \in response.drifts
       /\ p.asset \in DOMAIN response.exchange_positions

\* C22: every asset of the exchange snapshot that has no entry in the active
\* map is listed under missing by the pass, and the pass adds no entry to the
\* active map and no row to the store.
C22_MissingLocallyListedNotCreated ==
  [][response'.op = "reconcile"
       => /\ \A asset \in DOMAIN response'.exchange_positions :
               ~DictHas(positions, asset) <=> asset \in response'.missing
          /\ response'.missing \subseteq DOMAIN response'.exchange_positions
          /\ \A asset \in response'.missing :
               /\ ~DictHas(positions', asset)
               /\ RowsOf(db_positions', asset) = RowsOf(db_positions, asset)
          /\ StoreUnchanged]_vars

\* A pass over a snapshot that reports an asset the ledger holds and one it
\* does not hold and has never held.
C22_Witness ==
  /\ response.op = "reconcile"
  /\ positions # {}
  /\ \E asset \in response.missing :
       /\ ~DictHas(positions, asset)
       /\ RowsOf(db_positions, asset) = {}
  /\ \E p \in positions : p.asset \in DOMAIN response.exchange_positions

\* C23: when a pass of reconcile_all completes, every position of the active
\* map has been annotated: its reconciliation_status is SYNCED,
\* DRIFT_DETECTED or SYNC_FAILED, no longer PENDING_SYNC.
C23_PassAnnotatesActivePositions ==
  [][(response'.op = "reconcile_all" /\ response'.result = "ok")
       => \A p \in positions' :
            p.reconciliation_status \in {"SYNCED", "DRIFT_DETECTED", "SYNC_FAILED"}]_vars

\* C24: at most one pass of reconcile_all is in flight at any time, whichever
\* of the background loop and the endpoint started it.
C24_OnePassInFlight ==
  Cardinality({caller \in Callers : passes[caller].pc \in InFlight}) <= 1

\* C25: when the API call of one exchange raises during a pass, that exchange
\* contributes the empty list, the other exchange is still fetched and its
\* positions are counted and named in the results, and the pass returns
\* results, which it also keeps as the last reconciliation.
Fetched(exchange) ==
  IF reconciler.ready[exchange] THEN <<>> ELSE get_mock_positions(exchange)

C25_FailedFetchIsEmptySnapshot ==
  [][(response'.op = "reconcile_all" /\ response'.raised # {})
       => IF response'.result = "suspended"
          THEN /\ response'.raised = {"hyperliquid"}
               /\ passes'[response'.caller].pc = "await_coinbase"
               /\ passes'[response'.caller].hl_positions = <<>>
          ELSE /\ response'.results # ErrorResults
               /\ reconciler'.last_reconciliation = response'.results
               /\ \A exchange \in response'.raised :
                    response'.results.exchanges[exchange].positions = 0
               /\ \A exchange \in Venues \ response'.raised :
                    /\ response'.results.exchanges[exchange].positions
                         = Len(Fetched(exchange))
                    /\ \A i \in DOMAIN Fetched(exchange) :
                         \E j \in DOMAIN response'.results.assets :
                           response'.results.assets[j] = Fetched(exchange)[i].asset]_vars

\* A completed pass whose Hyperliquid API call raised and whose results hold
\* the two positions Coinbase returned.
C25_Witness ==
  /\ response.op = "reconcile_all"
  /\ response.result = "ok"
  /\ response.raised = {"hyperliquid"}
  /\ response.results # ErrorResults
  /\ response.results.exchanges["hyperliquid"].positions = 0
  /\ response.results.exchanges["coinbase"].positions = 2
  /\ response.results.total_positions = 2

\* C26: write transactions on the store are mutually exclusive: no two with
\* blocks of _transaction are open at the same time, and a transaction that
\* fails at its BEGIN because another is open leaves the rows that one wrote
\* as they are.
C26_WriteTransactionsExclusive ==
  [][/\ Cardinality({t \in Threads : threads'[t].pc \in InBlock}) <= 1
     /\ (/\ response'.op = "add_position"
         /\ response'.step = "begin"
         /\ response'.result = "raised") => StoreUnchanged]_vars

\* C27: every store failure met by an open, reduce, close, price update or
\* restart is raised to the caller: no call that met one returns normally.
\* The step to the next state met a store failure: the failing statement is
\* one the call executes.
FailureMet ==
  /\ response'.fault # "none"
  /\ CASE response'.op = "open" -> TRUE
       [] response'.op \in {"reduce", "close"} -> DictHas(positions, response'.asset)
       [] response'.op = "price" ->
            DictHas(positions, response'.batch[response'.failAt][1])
       [] response'.op = "restart" -> TRUE
       [] OTHER -> FALSE

C27_StoreFailureRaised ==
  [][FailureMet => response'.result = "raised"]_vars

\* C28: the exchange selected for an order is the one whose actual share of
\* the notional is furthest below its target, Hyperliquid when both are as
\* far below; with shares 0.9 and 0.1 against targets 0.8 and 0.2 it is
\* Coinbase.
\* target - actual, times 100 * total (times 100 when the total is 0).
Deficit(target, notional, total) ==
  IF total > 0 THEN target * total - 100 * notional ELSE target

C28_SelectsFurthestBelowTarget ==
  (response.op = "select_exchange" /\ response.fault = "returned")
    => LET hl == notional_abs(response.hl_positions)
           cb == notional_abs(response.cb_positions)
       IN response.result =
            IF Deficit(hl_allocation, hl, hl + cb) >= Deficit(cb_allocation, cb, hl + cb)
            THEN "hyperliquid" ELSE "coinbase"

\* C29: when the positions of the exchanges cannot be fetched, the selection
\* returns Hyperliquid, the default, and does not raise.
C29_SelectFallsBackToDefault ==
  response.op = "select_exchange"
    => /\ response.result \in Venues
       /\ response.fault = "raised" => response.result = "hyperliquid"

\* A selection whose fetch raised.
C29_Witness ==
  /\ response.op = "select_exchange"
  /\ response.fault = "raised"
  /\ response.result = "hyperliquid"

\* C30: an allocation status reports for each exchange the notional as the
\* sum of |size| * current_price, the actual share as notional / total (0
\* when the total is 0), the drift as |actual - target| and within_tolerance
\* exactly when the drift is below 0.05; every share is in [0, 1] and the
\* shares add up to 1 when the total is positive.
StatusOf(report, list, other, target) ==
  LET notional == notional_abs(list)
      total == notional + notional_abs(other)
  IN /\ report.notional_value = notional
     /\ report.actual = IF total > 0 THEN Fraction(notional, total)
                        ELSE Fraction(0, 1)
     /\ report.drift = Fraction(abs(100 * report.actual.num
                                      - target * report.actual.den),
                                100 * report.actual.den)
     /\ "within_tolerance" \in DOMAIN report
     /\ report.within_tolerance
          <=> 100 * report.drift.num < AllocationTolerance * report.drift.den
     /\ 0 <= report.actual.num
     /\ report.actual.num <= report.actual.den

C30_AllocationStatus ==
  (response.op \in {"allocation_status", "validate_allocation"}
     /\ response.result = "ok")
    => LET hl == response.allocations["hyperliquid"]
           cb == response.allocations["coinbase"]
       IN /\ StatusOf(hl, response.hl_positions, response.cb_positions, 80)
          /\ StatusOf(cb, response.cb_positions, response.hl_positions, 20)
          /\ notional_abs(response.hl_positions \o response.cb_positions) > 0
               => hl.actual.num * cb.actual.den + cb.actual.num * hl.actual.den
                    = hl.actual.den * cb.actual.den

\* The n most recent of a sequence of events, oldest first.
MostRecent(events, n) ==
  SubSeq(events, (IF Len(events) > n THEN Len(events) - n ELSE 0) + 1,
         Len(events))

\* C31: the drift history is bounded: after an allocation check the history
\* holds no more than N events (N the default limit of get_drift_history, the
\* one number of events the code names), and they are the N most recent of the
\* events recorded.
C31_DriftHistoryBounded ==
  [][response'.op = "validate_allocation"
       => /\ Len(reconciler'.drift_history) <= DefaultLimit
          /\ reconciler'.drift_history
               = MostRecent(drift_history_after(reconciler.drift_history,
                                                response'.allocations),
                            DefaultLimit)]_vars

\* C39: get_drift_history(limit) returns, for every limit >= 0, at most limit
\* events, and they are the most recently recorded ones in recording order.
C39_DriftHistoryLimit ==
  (response.op = "get_drift_history" /\ response.limit >= 0)
    => /\ Len(response.drift_events) <= response.limit
       /\ response.drift_events
            = MostRecent(reconciler.drift_history, response.limit)

FacadeOps == {"facade_close", "facade_reduce"}

\* C32: when an API client call raises during the facade's close_position or
\* reduce_position, the ledger and the store are as before the call and the
\* caller is given the failure (a FAILED result).
C32_VenueFailureSurfaced ==
  [][(response'.op \in FacadeOps /\ response'.raised)
       => /\ positions' = positions
          /\ StoreUnchanged
          /\ response'.result.status = "FAILED"]_vars

\* C33: when the exchange confirms the order of the facade's close_position
\* or reduce_position, the ledger transition is applied before the facade
\* returns success: after a successful close the asset is no longer active,
\* after a successful reduce its size is smaller by the filled amount.
C33_ConfirmedOrderAppliedToLedger ==
  [][(response'.op \in FacadeOps /\ response'.result.success
        /\ DictHas(positions, response'.asset))
       => IF response'.op = "facade_close"
          THEN ~DictHas(positions', response'.asset)
          ELSE LET before == abs(DictGet(positions, response'.asset).size)
                   filled == response'.accepted[1].size
               IN IF filled >= before
                  THEN ~DictHas(positions', response'.asset)
                  ELSE /\ DictHas(positions', response'.asset)
                       /\ abs(DictGet(positions', response'.asset).size)
                            = before - filled]_vars

\* C34: when the ledger holds no active position of the asset, the facade's
\* close_position and reduce_position return NOT_FOUND and invoke no
\* operation of an API client.
C34_NotFoundWithoutVenueCall ==
  (response.op \in FacadeOps /\ ~DictHas(positions, response.asset))
    => /\ response.result.status = "NOT_FOUND"
       /\ response.venue_calls = <<>>

\* C38: the facade's place_order returns a FAILED result only if no order
\* was transmitted: whenever an exchange accepted the order, the result has
\* success = True and carries the order id of the exchange.
C38_FailedOnlyIfNotTransmitted ==
  (response.op = "facade_place_order" /\ response.accepted # <<>>)
    => /\ response.result.success
       /\ response.result.order_id = response.accepted[1].order_id

\* C35: pruning with a horizon deletes from the store exactly the rows with
\* status closed whose closed_at is older than the horizon and returns their
\* number; it deletes no row of an active position and leaves the ledger
\* alone; and no operation deletes or changes an existing history entry.
C35_PruningDeletesOldClosedRows ==
  [][/\ response'.op = "clear_closed"
          => LET old == {r \in db_positions :
                           /\ r["status"] = "closed"
                           /\ older_than(r["closed_at"], response'.age,
                                         response'.older_than_days)}
             IN /\ db_positions' = db_positions \ old
                /\ response'.result = Cardinality(old)
                /\ positions' = positions
     /\ Len(db_history') >= Len(db_history)
     /\ \A i \in 1..Len(db_history) : db_history'[i] = db_history[i]]_vars

\* The list of the venue a ledger position names.
OwnList(venue, hl_positions, cb_positions) ==
  IF venue = "hyperliquid" THEN hl_positions ELSE cb_positions

\* C37: a ledger position is classified against the snapshot entry of its
\* own venue: when both venues report its asset, the entry compared is the
\* one of the venue the position records, and the position's classification
\* is the one that entry gives.
C37_ClassifiedAgainstOwnVenue ==
  [][response'.op = "reconcile_venues"
       => \A p \in positions :
            LET hl == dict_by_asset(response'.hl_positions)
                cb == dict_by_asset(response'.cb_positions)
                own == dict_by_asset(OwnList(p.venue, response'.hl_positions,
                                             response'.cb_positions))
            IN (p.asset \in DOMAIN hl /\ p.asset \in DOMAIN cb)
                 => /\ response'.exchange_positions[p.asset].exchange = p.venue
                    /\ DictGet(positions', p.asset)
                         = reconcile_entry(p, own, isoformat(calls + 1))]_vars

\* C36: the background loop runs passes forever: once started it is never
\* over, whatever a pass came to, and after every pass it sleeps and starts
\* another one, so that (unless the loop is never started) a pass of the
\* loop starts again and again.
C36_LoopRunsForever ==
  /\ [][passes["loop"].pc # "idle" => passes'["loop"].pc # "idle"]_vars
  /\ \/ [](passes["loop"].pc = "idle")
     \/ []<><<next_reconciliation>>_vars

\* The loop asleep after a pass during which an API call raised.
C36_Witness ==
  /\ passes["loop"].pc = "sleep"
  /\ response.op = "reconcile_all"
  /\ response.caller = "loop"
  /\ response.raised # {}

====
